---- MODULE Spec2Model ----
(***************************************************************************)
(* Leasing-Rechner (src/app.py): leasing-rule resolution, cost computation, *)
(* the ranking collection and the fuel prices of the Streamlit script.      *)
(*                                                                          *)
(* Numbers.  The program computes in binary floating point.  The model      *)
(* computes in exact rational arithmetic: a number is a record              *)
(* [n |-> numerator, d |-> denominator] in lowest terms with d > 0, and     *)
(* round(x, 2) is rounding to the nearest hundredth, ties to even, which is *)
(* what Python's round does on the exact value of its argument.            *)
(***************************************************************************)
EXTENDS Integers, Sequences, FiniteSets, TLC

VARIABLES
    leasing,        \* leasing rule table (rows of leasing.csv), fixed after load_data
    ranking,        \* st.session_state["ranking"]: list of input rows
    spritpreise,    \* global price table used by berechne_kosten
    kosten_df,      \* cost records computed by the ranking section, one per ranking row
    ranking_df,     \* index labels of ranking_df after sort_values: the ranking the user sees
    anfrage,        \* resolver call under test: <<kategorie, modell>> or <<>>
    bedingung,      \* result of find_leasing_bedingung for anfrage, or <<>>
    ss,             \* st.session_state, the keys of each slot: ss[slot].modell is "modell_<slot>"
    ranking_updated,        \* st.session_state["ranking_updated"]
    ranking_message_slot,   \* st.session_state["ranking_message_slot"]
    ranking_message_text,   \* st.session_state["ranking_message_text"]
    schritte,       \* number of user interactions so far
    jetzt,          \* the time in seconds
    letzter_lauf,   \* the time of the last script run, <<>> before the first
    stats_key,      \* the tier of the radio: "min", "avg" or "max"
    strompreis,     \* strom, the value of the slider
    prices_cache,   \* the cache of get_fuel_prices
    stats_cache,    \* the cache of get_fuel_stats
    fuel_stats,     \* what the last call of get_fuel_stats returned or raised
    fuel_prices,    \* what its call of get_fuel_prices returned or raised, <<>> without a call
    angefragt,      \* the last script run sent a request to the feed
    antwort,        \* what the body of get_fuel_prices met in the last run, <<>> if it did not run
    abfragezeit,    \* the times of the last two runs of the body of get_fuel_prices
    grundlage,      \* the time the value of the last call of get_fuel_stats comes from
    ausgabe         \* the last button press: <<kind of message, slot, text, entries dropped>> or <<>>

preisVars == <<jetzt, letzter_lauf, stats_key, strompreis, prices_cache, stats_cache, fuel_stats, fuel_prices, angefragt,
              antwort, abfragezeit, grundlage>>

vars == <<leasing, ranking, spritpreise, kosten_df, ranking_df, anfrage, bedingung, ss,
          ranking_updated, ranking_message_slot, ranking_message_text, ausgabe, schritte,
          preisVars>>

uiVars == <<ss, ranking_updated, ranking_message_slot, ranking_message_text, ausgabe, schritte>>

----------------------------------------------------------------------------
(* Exact rational arithmetic                                                *)

\* The operators below take their arguments by value: an argument is
\* evaluated once and bound (x \in {a}) before the body uses it.
Abs(x) == IF x < 0 THEN -x ELSE x

RECURSIVE GCD(_, _)
GCD(a, b) == IF b = 0 THEN a ELSE GCD(b, a % b)

\* n/d divided by g, with the sign s of d moved to the numerator
Gekuerzt(n, d, s, g) == [n |-> (s * n) \div g, d |-> (s * d) \div g]

\* n/d in lowest terms, d > 0
Q(n, d) ==
    CHOOSE q \in { Gekuerzt(x, y, IF y < 0 THEN -1 ELSE 1, g) :
                     <<x, y, g>> \in { <<x, y, GCD(Abs(x), Abs(y))>> : x \in {n}, y \in {d} } } : TRUE

Zero == [n |-> 0, d |-> 1]
FromInt(i) == [n |-> i, d |-> 1]

\* over the least common denominator, to keep the products small
RAdd(a, b) ==
    CHOOSE q \in { Q(x.n * (y.d \div g) + y.n * (x.d \div g), (x.d \div g) * y.d) :
                     <<x, y, g>> \in { <<x, y, GCD(x.d, y.d)>> : x \in {a}, y \in {b} } } : TRUE

RNeg(a) == CHOOSE q \in { [n |-> -x.n, d |-> x.d] : x \in {a} } : TRUE
RSub(a, b) == RAdd(a, RNeg(b))

\* cross-cancel before multiplying to keep the products small
RMul(a, b) ==
    CHOOSE q \in { Q((x.n \div g[1]) * (y.n \div g[2]), (x.d \div g[2]) * (y.d \div g[1])) :
                     <<x, y, g>> \in { <<x, y, <<GCD(Abs(x.n), y.d), GCD(Abs(y.n), x.d)>> >> :
                                         x \in {a}, y \in {b} } } : TRUE

\* 1/b for b # 0
RInv(b) ==
    CHOOSE q \in { IF y.n < 0 THEN [n |-> -y.d, d |-> -y.n] ELSE [n |-> y.d, d |-> y.n] :
                     y \in {b} } : TRUE
RDiv(a, b) == RMul(a, RInv(b))
RLess(a, b) == RSub(a, b).n < 0
RLeq(a, b) == RSub(a, b).n <= 0
RMax(a, b) == CHOOSE q \in { IF RLess(x, y) THEN y ELSE x : x \in {a}, y \in {b} } : TRUE
RAbs(a) == CHOOSE q \in { [n |-> Abs(x.n), d |-> x.d] : x \in {a} } : TRUE

\* math.floor: the greatest integer <= a (\div rounds towards minus infinity)
Floor(a) == CHOOSE i \in { x.n \div x.d : x \in {a} } : TRUE

\* the integer nearest to n/d, ties to the even integer (q = n \div d)
Nearest(n, d, q) ==
    IF 2 * (n - q * d) < d THEN q
    ELSE IF 2 * (n - q * d) > d THEN q + 1
    ELSE IF q % 2 = 0 THEN q ELSE q + 1

\* round(a): nearest integer, ties to even
Round0(a) == CHOOSE i \in { Nearest(x.n, x.d, x.n \div x.d) : x \in {a} } : TRUE

\* round(a, 2): nearest hundredth, ties to the even hundredth
Round2(a) == Q(Round0(RMul(a, FromInt(100))), 100)

\* round(a, 1)
Round1(a) == Q(Round0(RMul(a, FromInt(10))), 10)

----------------------------------------------------------------------------
(* Cost calculator                                                          *)

\* str(row["Kraftstoff"]).lower() on the fuel kinds the model draws from
Lower(s) ==
    CASE s = "Benzin" -> "benzin"
      [] s = "BENZIN" -> "benzin"
      [] s = "Diesel" -> "diesel"
      [] s = "Elektro" -> "elektro"
      [] s = "Hybrid" -> "hybrid"
      [] s = "Elektro/Hybrid" -> "elektro/hybrid"
      [] s = "Gas" -> "gas"
      [] OTHER -> s

\* spritpreise.get(key, 0.0)
PreisGet(tabelle, key) == IF key \in DOMAIN tabelle THEN tabelle[key] ELSE Zero

\* variant: the private-use benchmark rounded instead of floored
geldwerter_vorteil_berechnen_round(kraftstoff, uvp, leasingrate_faktor) ==
    IF kraftstoff \notin {"benzin", "diesel"} THEN <<Zero, Zero>>
    ELSE IF ~RLess(leasingrate_faktor, Q(1, 100)) THEN <<Zero, Zero>>
    ELSE LET private_nutzung == FromInt(Round0(RMul(uvp, Q(1, 100))))
             leasingrate_abs == RMul(uvp, leasingrate_faktor)
             geldwerter_vorteil == RMax(RSub(private_nutzung, leasingrate_abs), Zero)
         IN  <<geldwerter_vorteil, RDiv(geldwerter_vorteil, FromInt(3))>>

\* variant: no check of the fuel kind
geldwerter_vorteil_berechnen_alle(kraftstoff, uvp, leasingrate_faktor) ==
    IF ~RLess(leasingrate_faktor, Q(1, 100)) THEN <<Zero, Zero>>
    ELSE LET private_nutzung == FromInt(Floor(RMul(uvp, Q(1, 100))))
             leasingrate_abs == RMul(uvp, leasingrate_faktor)
             geldwerter_vorteil == RMax(RSub(private_nutzung, leasingrate_abs), Zero)
         IN  <<geldwerter_vorteil, RDiv(geldwerter_vorteil, FromInt(3))>>

\* the nested function of berechne_kosten: <<geldwerter_vorteil, steueranteil>>
geldwerter_vorteil_berechnen(kraftstoff, uvp, leasingrate_faktor) ==
    IF kraftstoff \notin {"benzin", "diesel"} THEN <<Zero, Zero>>
    ELSE IF ~RLess(leasingrate_faktor, Q(1, 100)) THEN <<Zero, Zero>>
    ELSE LET private_nutzung == FromInt(Floor(RMul(uvp, Q(1, 100))))
             leasingrate_abs == RMul(uvp, leasingrate_faktor)
             geldwerter_vorteil == RMax(RSub(private_nutzung, leasingrate_abs), Zero)
             steueranteil == RDiv(geldwerter_vorteil, FromInt(3))
         IN  <<geldwerter_vorteil, steueranteil>>

\* variant: Benzin and Diesel are costed like a hybrid
spritkosten_pro_monat_immer_summe(kraftstoff, km_gesamt, verbrauch_l, verbrauch_kwh, sprit, laufzeit, tabelle) ==
    LET hundert == RDiv(km_gesamt, FromInt(100))
        lz == FromInt(laufzeit)
        kosten_benzin == RDiv(RMul(RMul(hundert, verbrauch_l), PreisGet(tabelle, sprit)), lz)
        kosten_strom == RDiv(RMul(RMul(hundert, verbrauch_kwh), PreisGet(tabelle, "Strom")), lz)
    IN  IF kraftstoff \in {"benzin", "diesel", "elektro/hybrid", "hybrid"}
        THEN RAdd(kosten_benzin, kosten_strom)
        ELSE IF kraftstoff = "elektro" THEN kosten_strom
        ELSE Zero

\* variant: a hybrid is costed like a Benzin
spritkosten_pro_monat_hybrid_nur_benzin(kraftstoff, km_gesamt, verbrauch_l, verbrauch_kwh, sprit, laufzeit, tabelle) ==
    LET hundert == RDiv(km_gesamt, FromInt(100))
        lz == FromInt(laufzeit)
        kosten_benzin == RDiv(RMul(RMul(hundert, verbrauch_l), PreisGet(tabelle, sprit)), lz)
        kosten_strom == RDiv(RMul(RMul(hundert, verbrauch_kwh), PreisGet(tabelle, "Strom")), lz)
    IN  IF kraftstoff \in {"benzin", "diesel", "elektro/hybrid", "hybrid"} THEN kosten_benzin
        ELSE IF kraftstoff = "elektro" THEN kosten_strom
        ELSE Zero

\* variant: a fuel kind that is not recognized is costed like a Benzin
spritkosten_pro_monat_sonst_benzin(kraftstoff, km_gesamt, verbrauch_l, verbrauch_kwh, sprit, laufzeit, tabelle) ==
    LET hundert == RDiv(km_gesamt, FromInt(100))
        lz == FromInt(laufzeit)
        kosten_benzin == RDiv(RMul(RMul(hundert, verbrauch_l), PreisGet(tabelle, sprit)), lz)
        kosten_strom == RDiv(RMul(RMul(hundert, verbrauch_kwh), PreisGet(tabelle, "Strom")), lz)
    IN  IF kraftstoff = "elektro" THEN kosten_strom
        ELSE IF kraftstoff \in {"elektro/hybrid", "hybrid"} THEN RAdd(kosten_benzin, kosten_strom)
        ELSE kosten_benzin

\* monthly fuel cost by fuel kind (laufzeit > 0)
spritkosten_pro_monat(kraftstoff, km_gesamt, verbrauch_l, verbrauch_kwh, sprit, laufzeit, tabelle) ==
    LET hundert == RDiv(km_gesamt, FromInt(100))
        lz == FromInt(laufzeit)
        kosten_benzin == RDiv(RMul(RMul(hundert, verbrauch_l), PreisGet(tabelle, sprit)), lz)
        kosten_strom == RDiv(RMul(RMul(hundert, verbrauch_kwh), PreisGet(tabelle, "Strom")), lz)
    IN  IF kraftstoff \in {"benzin", "diesel"} THEN kosten_benzin
        ELSE IF kraftstoff = "elektro" THEN kosten_strom
        ELSE IF kraftstoff \in {"elektro/hybrid", "hybrid"} THEN RAdd(kosten_benzin, kosten_strom)
        ELSE Zero

KostenRecord(lpm, lges, gv, st, spm, sges, gpm, kges) ==
    [k \in {"Leasingkosten / Monat", "Leasingkosten (Gesamt)",
            "Geldwerter Vorteil / Monat", "Steuerlicher Aufschlag / Monat",
            "Spritkosten / Monat", "Spritkosten (Gesamt)",
            "Gesamtkosten / Monat", "Kosten (Gesamt)"} |->
        CASE k = "Leasingkosten / Monat" -> lpm
          [] k = "Leasingkosten (Gesamt)" -> lges
          [] k = "Geldwerter Vorteil / Monat" -> gv
          [] k = "Steuerlicher Aufschlag / Monat" -> st
          [] k = "Spritkosten / Monat" -> spm
          [] k = "Spritkosten (Gesamt)" -> sges
          [] k = "Gesamtkosten / Monat" -> gpm
          [] OTHER -> kges]

\* variant: the leasing total repeats the monthly figure
kosten_ohne_laufzeit_mit_gesamt(leasingkosten_pro_monat, geldwerter_vorteil, steueranteil) ==
    KostenRecord(Round2(leasingkosten_pro_monat), Round2(leasingkosten_pro_monat),
                 Round2(geldwerter_vorteil), Round2(steueranteil),
                 Zero, Zero, Round2(leasingkosten_pro_monat), Zero)

\* variant: the combined cost per month is zeroed like the totals
kosten_ohne_laufzeit_rest_null(leasingkosten_pro_monat, geldwerter_vorteil, steueranteil) ==
    KostenRecord(Round2(leasingkosten_pro_monat), Zero,
                 Round2(geldwerter_vorteil), Round2(steueranteil),
                 Zero, Zero, Zero, Zero)

\* the record returned when laufzeit <= 0
kosten_ohne_laufzeit(leasingkosten_pro_monat, geldwerter_vorteil, steueranteil) ==
    KostenRecord(Round2(leasingkosten_pro_monat), Zero,
                 Round2(geldwerter_vorteil), Round2(steueranteil),
                 Zero, Zero, Round2(leasingkosten_pro_monat), Zero)

\* variant: the combined total is not multiplied by the term
kosten_mit_laufzeit_ohne_faktor(leasingkosten_pro_monat, geldwerter_vorteil, steueranteil, spm, laufzeit) ==
    LET lz == FromInt(laufzeit)
        gesamtkosten_pro_monat == RAdd(leasingkosten_pro_monat, spm)
    IN  KostenRecord(Round2(leasingkosten_pro_monat), Round2(RMul(leasingkosten_pro_monat, lz)),
                     Round2(geldwerter_vorteil), Round2(steueranteil),
                     Round2(spm), Round2(RMul(spm, lz)),
                     Round2(gesamtkosten_pro_monat), Round2(gesamtkosten_pro_monat))

\* the record returned when laufzeit > 0
kosten_mit_laufzeit(leasingkosten_pro_monat, geldwerter_vorteil, steueranteil, spm, laufzeit) ==
    LET lz == FromInt(laufzeit)
        leasingkosten_gesamt == RMul(leasingkosten_pro_monat, lz)
        spritkosten_gesamt == RMul(spm, lz)
        gesamtkosten_pro_monat == RAdd(leasingkosten_pro_monat, spm)
        kosten_gesamt == RMul(gesamtkosten_pro_monat, lz)
    IN  KostenRecord(Round2(leasingkosten_pro_monat), Round2(leasingkosten_gesamt),
                     Round2(geldwerter_vorteil), Round2(steueranteil),
                     Round2(spm), Round2(spritkosten_gesamt),
                     Round2(gesamtkosten_pro_monat), Round2(kosten_gesamt))

\* variant: the surcharge is not added to the base
leasingkosten_pro_monat_von_basis(uvp, leasingrate_faktor, steueranteil) ==
    RMul(uvp, leasingrate_faktor)

\* leasingkosten_pro_monat = basis + steueranteil
leasingkosten_pro_monat_von(uvp, leasingrate_faktor, steueranteil) ==
    RAdd(RMul(uvp, leasingrate_faktor), steueranteil)

berechne_kosten(row, tabelle) ==
    LET kraftstoff == Lower(row.Kraftstoff)
        uvp == FromInt(row.UVP)
        laufzeit == row.Laufzeit_Monate
        km_gesamt == FromInt(row.Freikilometer)
        leasingrate_faktor == row.Leasingrate_Faktor
        verbrauch_l == row.Verbrauch_L_100
        verbrauch_kwh == row.Verbrauch_kWh_100
        sprit == row.Sprit
        gw == geldwerter_vorteil_berechnen(kraftstoff, uvp, leasingrate_faktor)
        geldwerter_vorteil == gw[1]
        steueranteil == gw[2]
        leasingkosten_pro_monat == leasingkosten_pro_monat_von(uvp, leasingrate_faktor, steueranteil)
    IN  IF laufzeit <= 0
        THEN kosten_ohne_laufzeit(leasingkosten_pro_monat, geldwerter_vorteil, steueranteil)
        ELSE kosten_mit_laufzeit(leasingkosten_pro_monat, geldwerter_vorteil, steueranteil,
                 spritkosten_pro_monat(kraftstoff, km_gesamt, verbrauch_l, verbrauch_kwh,
                                       sprit, laufzeit, tabelle),
                 laufzeit)

\* raw_df.apply(berechne_kosten, axis=1)
RECURSIVE KostenDf(_, _)
KostenDf(rows, tabelle) ==
    IF rows = <<>> THEN <<>>
    ELSE <<berechne_kosten(Head(rows), tabelle)>> \o KostenDf(Tail(rows), tabelle)

\* the orders of the index labels 1..n
Permutationen(n) == { p \in [1..n -> 1..n] : \A i, j \in 1..n : p[i] = p[j] => i = j }

\* ranking_df.sort_values(spalte, ascending=True): the index labels in the
\* order of the sorted frame.  The default sort kind is not stable, the
\* order among rows with equal keys is whatever the sort routine of the
\* build leaves.
sort_values(df, spalte) ==
    { p \in Permutationen(Len(df)) :
        \A i \in 1..(Len(df) - 1) : RLeq(df[p[i]][spalte], df[p[i + 1]][spalte]) }

\* variant: the stored list is replaced by the sorted rows
ranking_nach_ansicht_sortiert(liste, sicht) == [i \in DOMAIN sicht |-> liste[sicht[i]]]

\* st.session_state["ranking"] after the ranking section has built its view:
\* raw_df is a new frame and sort_values returns a new frame
ranking_nach_ansicht(liste, sicht) == liste

----------------------------------------------------------------------------
(* Leasing rule resolver                                                    *)

\* mask.any() for a row mask over the rule table
AnyRow(leasing_df, kategorie, modell) ==
    \E i \in 1..Len(leasing_df) :
        /\ leasing_df[i].Bedingung_Kraftstoff = kategorie
        /\ leasing_df[i].Bedingung_Modell = modell

find_leasing_bedingung_rest_zuerst(leasing_df, kategorie, modell) ==
    IF AnyRow(leasing_df, kategorie, "Rest") THEN <<kategorie, "Rest">>
    ELSE <<kategorie, modell>>

find_leasing_bedingung(leasing_df, kategorie, modell) ==
    IF AnyRow(leasing_df, kategorie, modell) THEN <<kategorie, modell>>
    ELSE IF AnyRow(leasing_df, kategorie, "Rest") THEN <<kategorie, "Rest">>
    ELSE <<kategorie, modell>>

----------------------------------------------------------------------------
(* Input domains                                                            *)

\* contract terms drawn for the cost calculator: -1..MaxLaufzeit and the
\* two terms the leasing offers use
MaxLaufzeit == 2
Laufzeiten == (-1..MaxLaufzeit) \cup {6, 12}

NoneWert == "None"

KraftstoffWerte == {"Benzin", "BENZIN", "Diesel", "Elektro", "Hybrid", "Elektro/Hybrid", "Gas"}
UVPWerte == {150, 30000, 30001}
KmWerte == {10000, 15000}
FaktorWerte == {Q(9, 1000), Q(99, 10000), Q(1, 100), Q(12, 1000)}
VerbrauchLWerte == {Q(15, 10), Q(6, 1)}
VerbrauchKwhWerte == {Zero, Q(14, 1)}
SpritWerte == {"Super E10", "Super E5", "Diesel", NoneWert}

KostenRows ==
    [UVP : UVPWerte, Laufzeit_Monate : Laufzeiten, Freikilometer : KmWerte,
     Leasingrate_Faktor : FaktorWerte, Verbrauch_L_100 : VerbrauchLWerte,
     Verbrauch_kWh_100 : VerbrauchKwhWerte, Kraftstoff : KraftstoffWerte,
     Sprit : SpritWerte]

PreisTabelle(e10, e5, plus, diesel, strom) ==
    [k \in {"Super E10", "Super E5", "Super+", "Diesel", "Strom"} |->
        CASE k = "Super E10" -> e10
          [] k = "Super E5" -> e5
          [] k = "Super+" -> plus
          [] k = "Diesel" -> diesel
          [] OTHER -> strom]

PreisTabellen ==
    { PreisTabelle(Q(180, 100), Q(185, 100), Q(195, 100), Q(1659, 1000), Q(30, 100)),
      PreisTabelle(Q(1689, 1000), Q(1759, 1000), Q(1859, 1000), Q(155, 100), Q(35, 100)) }

\* rule rows the resolver tables are drawn from (order as in leasing.csv)
LeasingZeile(bk, bm, option, rate, lz, km) ==
    [Bedingung_Kraftstoff |-> bk, Bedingung_Modell |-> bm, Leasingoption |-> option,
     Leasingrate |-> rate, Laufzeit |-> lz, Freikilometer |-> km]

LeasingBasis ==
    << LeasingZeile("Verbrenner", "Rest", "Standard 12", Q(9, 10), 12, 15000),
       LeasingZeile("Verbrenner", "Rest", "Kurz 6", Q(1, 1), 6, 10000),
       LeasingZeile("Verbrenner", "Caddy", "Nutzfahrzeug 12", Q(8, 10), 12, 20000),
       LeasingZeile("Elektro/Hybrid", "Rest", "E-Leasing 12", Q(7, 10), 12, 10000),
       LeasingZeile("Elektro/Hybrid", "Golf", "GTE 6", Q(9, 10), 6, 10000),
       LeasingZeile("Verbrenner", "Golf", "Golf 12", Q(1, 1), 12, 10000) >>

\* the rows of basis whose index is in keep, in order
RECURSIVE SubSeq2(_, _, _)
SubSeq2(basis, keep, i) ==
    IF i > Len(basis) THEN <<>>
    ELSE (IF i \in keep THEN <<basis[i]>> ELSE <<>>) \o SubSeq2(basis, keep, i + 1)

LeasingTabellen == { SubSeq2(LeasingBasis, keep, 1) : keep \in SUBSET (1..Len(LeasingBasis)) }

Kategorien == {"Verbrenner", "Elektro/Hybrid"}
ModellNamen == {"Golf", "Caddy", "UnknownModel", "Rest"}

----------------------------------------------------------------------------
(* Fuel prices: get_fuel_prices, get_fuel_stats, their caches and the price  *)
(* table of the script                                                       *)

\* round(a, 3)
Round3(a) == Q(Round0(RMul(a, FromInt(1000))), 1000)

\* a JSON value under a key: the key is missing, the value is null, or a number
Fehlt == [da |-> FALSE, null |-> FALSE, wert |-> Zero]
Null == [da |-> TRUE, null |-> TRUE, wert |-> Zero]
Zahl(q) == [da |-> TRUE, null |-> FALSE, wert |-> q]

\* the empty dict
Leer == [s \in {} |-> Fehlt]

\* the entry of a station in the "prices" object of the feed
Info(status, e5, e10, diesel) == [status |-> status, e5 |-> e5, e10 |-> e10, diesel |-> diesel]

kraftstoffe == {"e5", "e10", "diesel"}

\* what a call of the body of get_fuel_prices meets: the station list cannot
\* be read or holds no id (no request is sent), the request fails, or it
\* returns a parsed body.  typ is the JSON type of the body, ok its "ok",
\* prices_dict whether its "prices" is an object, prices that object.
Ausgang(art, typ, ok, prices_dict, prices) ==
    [art |-> art, typ |-> typ, ok |-> ok, prices_dict |-> prices_dict, prices |-> prices]

Fehlschlag(art) == Ausgang(art, "dict", FALSE, TRUE, Leer)
Body(prices) == Ausgang("body", "dict", TRUE, TRUE, prices)

\* a result of a call: a returned value or a raised exception
Wert(v) == [art |-> "ok", wert |-> v, fehler |-> ""]

\* variant: closed stations are kept
offene_stationen_alle(prices) == prices

\* {sid: info for sid, info in prices.items() if info.get("status") == "open"}
offene_stationen(prices) ==
    [s \in { t \in DOMAIN prices : prices[t].status = "open" } |-> prices[s]]

\* the body of get_fuel_prices for the outcome fd: the result and whether a
\* request was sent to the feed
get_fuel_prices_body(fd) ==
    IF fd.art \in {"stations_unreadable", "keine_ids"}
    THEN [erg |-> Wert(Leer), angefragt |-> FALSE]
    ELSE IF fd.art \in {"network", "timeout", "http_status", "unparsable"}
    THEN [erg |-> Wert(Leer), angefragt |-> TRUE]
    ELSE IF fd.typ # "dict"
    THEN [erg |-> [art |-> "raise", wert |-> Leer, fehler |-> "AttributeError"], angefragt |-> TRUE]
    ELSE IF ~fd.ok
    THEN [erg |-> Wert(Leer), angefragt |-> TRUE]
    ELSE IF ~fd.prices_dict
    THEN [erg |-> [art |-> "raise", wert |-> Leer, fehler |-> "AttributeError"], angefragt |-> TRUE]
    ELSE [erg |-> Wert(offene_stationen(fd.prices)), angefragt |-> TRUE]

\* seconds a cached result is served
TTL == 300

\* a cache of st.cache_data(ttl=300) holds nothing, <<>>, or
\* <<[wert |-> value, zeit |-> time of storing, stand |-> time of the run of
\* the body of get_fuel_prices the value comes from]>>

\* variant: an entry never expires
Gueltig_immer(cache, t) == cache # <<>>

\* the cache serves its entry at time t
Gueltig(cache, t) ==
    /\ cache # <<>>
    /\ t < cache[1].zeit + TTL

\* variant: an empty result is not stored
Gespeichert_nicht_leer(erg, t, stand) ==
    IF erg.art = "ok" /\ DOMAIN erg.wert # {}
    THEN << [wert |-> erg.wert, zeit |-> t, stand |-> stand] >> ELSE <<>>

\* the cache after a run of the function body at time t: a returned value is
\* stored, an exception is not
Gespeichert(erg, t, stand) ==
    IF erg.art = "ok" THEN << [wert |-> erg.wert, zeit |-> t, stand |-> stand] >> ELSE <<>>

\* a call of get_fuel_prices at time t with the cache pc, the body meeting fd
get_fuel_prices(pc, t, fd) ==
    IF Gueltig(pc, t)
    THEN [erg |-> Wert(pc[1].wert), cache |-> pc, angefragt |-> FALSE, ausgefuehrt |-> FALSE,
          stand |-> pc[1].stand]
    ELSE CHOOSE r \in { [erg |-> b.erg, cache |-> Gespeichert(b.erg, t, t),
                         angefragt |-> b.angefragt, ausgefuehrt |-> TRUE, stand |-> t] :
                        b \in { get_fuel_prices_body(fd) } } : TRUE

\* the stations whose info has the key fuel with a value that is not None
MitWert(prices, fuel) == { s \in DOMAIN prices : prices[s][fuel].da /\ ~prices[s][fuel].null }

\* sum(values) over the stations S, values being round(float(info[fuel]), 3)
RECURSIVE Summe(_, _, _)
Summe(prices, S, fuel) ==
    IF S = {} THEN Zero
    ELSE CHOOSE r \in { RAdd(Round3(prices[s][fuel].wert), Summe(prices, S \ {s}, fuel)) :
                        s \in { CHOOSE t \in S : TRUE } } : TRUE

\* variant: avg is the sum of the values, not divided by their number
Statistik_summe(prices, S, fuel, welche) ==
    IF welche = "min"
    THEN CHOOSE v \in { Round3(prices[s][fuel].wert) : s \in S } :
            \A s \in S : RLeq(v, Round3(prices[s][fuel].wert))
    ELSE IF welche = "max"
    THEN CHOOSE v \in { Round3(prices[s][fuel].wert) : s \in S } :
            \A s \in S : RLeq(Round3(prices[s][fuel].wert), v)
    ELSE Round3(Summe(prices, S, fuel))

\* one of min / avg / max of a fuel over the stations S (not empty)
Statistik(prices, S, fuel, welche) ==
    IF welche = "min"
    THEN CHOOSE v \in { Round3(prices[s][fuel].wert) : s \in S } :
            \A s \in S : RLeq(v, Round3(prices[s][fuel].wert))
    ELSE IF welche = "max"
    THEN CHOOSE v \in { Round3(prices[s][fuel].wert) : s \in S } :
            \A s \in S : RLeq(Round3(prices[s][fuel].wert), v)
    ELSE Round3(RDiv(Summe(prices, S, fuel), FromInt(Cardinality(S))))

\* the dict stats built from a dict of prices that is not empty
StatsVon(prices) ==
    [welche \in {"min", "avg", "max"} |->
        [fuel \in kraftstoffe |->
            CHOOSE r \in { IF S = {} THEN Null ELSE Zahl(Statistik(prices, S, fuel, welche)) :
                           S \in { MitWert(prices, fuel) } } : TRUE]]

\* the stats of a call that raised
KeineStats == [welche \in {"min", "avg", "max"} |-> [fuel \in kraftstoffe |-> Fehlt]]

Raise(fehler) == [art |-> "raise", wert |-> KeineStats, fehler |-> fehler]

\* variant: an empty dict of prices gives statistics that are all None
get_fuel_stats_body_ohne_raise(p) ==
    IF p.art = "raise" THEN Raise(p.fehler)
    ELSE [art |-> "ok", wert |-> StatsVon(p.wert), fehler |-> ""]

\* the body of get_fuel_stats, p being the result of its call of
\* get_fuel_prices
get_fuel_stats_body(p) ==
    IF p.art = "raise" THEN Raise(p.fehler)
    ELSE IF DOMAIN p.wert = {} THEN Raise("RuntimeError")
    ELSE [art |-> "ok", wert |-> StatsVon(p.wert), fehler |-> ""]

\* a call of get_fuel_stats at time t with the caches sc and pc, the body of
\* get_fuel_prices meeting fd if it runs
get_fuel_stats(sc, pc, t, fd) ==
    IF Gueltig(sc, t)
    THEN [erg |-> Wert(sc[1].wert), stats_cache |-> sc, prices_cache |-> pc,
          prices |-> <<>>, angefragt |-> FALSE, ausgefuehrt |-> FALSE, stand |-> sc[1].stand]
    ELSE CHOOSE r \in { CHOOSE q \in { [erg |-> e, stats_cache |-> Gespeichert(e, t, p.stand),
                                        prices_cache |-> p.cache, prices |-> << p.erg >>,
                                        angefragt |-> p.angefragt, ausgefuehrt |-> p.ausgefuehrt,
                                        stand |-> p.stand] :
                                       e \in { get_fuel_stats_body(p.erg) } } : TRUE :
                        p \in { get_fuel_prices(pc, t, fd) } } : TRUE

\* variant: the table of the tier "avg" whatever the tier
all_fallback_spritpreise_immer_avg(key, strom) ==
    PreisTabelle(Q(178, 100), Q(185, 100), Q(205, 100), Q(165, 100), strom)

\* all_fallback_spritpreise[stats_key] with "Strom": strom
all_fallback_spritpreise(key, strom) ==
    IF key = "min"
    THEN PreisTabelle(Q(168, 100), Q(175, 100), Q(195, 100), Q(155, 100), strom)
    ELSE IF key = "max"
    THEN PreisTabelle(Q(188, 100), Q(195, 100), Q(215, 100), Q(175, 100), strom)
    ELSE PreisTabelle(Q(178, 100), Q(185, 100), Q(205, 100), Q(165, 100), strom)

\* variant: the fallback whatever the statistic
Oder_immer_fallback(v, fallback) == fallback

\* variant: only None gives the fallback
Oder_nur_none(v, fallback) == IF ~v.da \/ v.null THEN fallback ELSE v.wert

\* tanker_preise.get(fuel) or fallback: None and 0.0 give the fallback
Oder(v, fallback) == IF ~v.da \/ v.null \/ v.wert = Zero THEN fallback ELSE v.wert

\* super_plus_price
super_plus_price(e5_price) == RAdd(e5_price, Q(10, 100))

\* the dict spritpreise the script builds from the result of get_fuel_stats
preistabelle(key, erg, strom) ==
    CHOOSE r \in {
        IF erg.art = "raise" THEN fallback
        ELSE CHOOSE q \in { PreisTabelle(Oder(erg.wert[key]["e10"], fallback["Super E10"]),
                                         e5_price,
                                         super_plus_price(e5_price),
                                         Oder(erg.wert[key]["diesel"], fallback["Diesel"]),
                                         strom) :
                            e5_price \in { Oder(erg.wert[key]["e5"], fallback["Super E5"]) } } : TRUE :
        fallback \in { all_fallback_spritpreise(key, strom) } } : TRUE

\* the slider of the electricity price, at its default
StromDefault == Q(30, 100)

\* the caches and the last call of the price section as a script run at time
\* 0 with the tier "avg" leaves them when the feed is unreachable; the
\* specifications that do not run the price section keep them so
PreiseFest ==
    /\ jetzt = 0
    /\ letzter_lauf = << 0 >>
    /\ stats_key = "avg"
    /\ strompreis = StromDefault
    /\ prices_cache = << [wert |-> Leer, zeit |-> 0, stand |-> 0] >>
    /\ stats_cache = <<>>
    /\ fuel_stats = Raise("RuntimeError")
    /\ fuel_prices = << Wert(Leer) >>
    /\ angefragt = TRUE
    /\ antwort = << Fehlschlag("network") >>
    /\ abfragezeit = << 0 >>
    /\ grundlage = 0

----------------------------------------------------------------------------
(* The slot loop of the script (Autoauswahl)                                *)

\* slots of the page (cars_per_row * rows = 8 in the program)
NumSlots == 2

\* user interactions explored per session
MaxSchritte == 6

Slots == 1..NumSlots

AutoZeile(modell, linie, motor, kategorie, kraftstoff, l, kwh, preis) ==
    [Modell |-> modell, Ausstattungslinie |-> linie, Motor |-> motor,
     Kategorie |-> kategorie, Kraftstoff |-> kraftstoff,
     l_100km |-> l, kWh_100km |-> kwh, Preis |-> preis, Bild |-> ""]

\* the vehicle catalog (rows of autos.csv)
autos ==
    << AutoZeile("Golf", "Life", "1.5 TSI", "Verbrenner", "Benzin", Q(55, 10), Zero, 30000),
       AutoZeile("Golf", "GTE", "1.5 eHybrid", "Elektro/Hybrid", "Hybrid", Q(15, 10), Q(14, 1), 45000),
       AutoZeile("Caddy", "Cargo", "2.0 TDI", "Verbrenner", "Diesel", Q(5, 1), Zero, 35000),
       AutoZeile("Caddy", "Cargo", "1.5 TSI", "Verbrenner", "Benzin", Q(6, 1), Zero, 33000) >>

Range(seq) == { seq[i] : i \in DOMAIN seq }

\* Series.unique(): the values in order of first appearance
RECURSIVE Unique(_)
Unique(seq) ==
    IF seq = <<>> THEN <<>>
    ELSE LET vorn == Unique(SubSeq(seq, 1, Len(seq) - 1))
             x == seq[Len(seq)]
         IN  IF x \in Range(vorn) THEN vorn ELSE Append(vorn, x)

\* st.selectbox with a key: the value kept in the session state if it is one of
\* the options, else the default (nothing with index=None or no options, the
\* first option otherwise)
Selectbox(options, current, index_none) ==
    IF current \in Range(options) THEN current
    ELSE IF index_none \/ options = <<>> THEN NoneWert
    ELSE options[1]

\* variant: every label is treated like "Kraftstoff"
auto_selectbox_single_wie_kraftstoff(label, options, current, disabled) ==
    CHOOSE r \in {
        IF disabled
        THEN [wert |-> Selectbox(o, c, TRUE), geschrieben |-> FALSE]
        ELSE IF c \notin Range(o) /\ o # <<>>
        THEN [wert |-> Selectbox(o, o[1], FALSE), geschrieben |-> TRUE]
        ELSE [wert |-> Selectbox(o, c, FALSE), geschrieben |-> FALSE]
        : o \in {options}, c \in {current} } : TRUE

\* the value the box returns, and whether the helper wrote the session key
auto_selectbox_single(label, options, current, disabled) ==
    CHOOSE r \in {
        IF disabled
        THEN [wert |-> Selectbox(o, c, TRUE), geschrieben |-> FALSE]
        ELSE IF label = "Kraftstoff"
        THEN IF c \notin Range(o) /\ o # <<>>
             THEN [wert |-> Selectbox(o, o[1], FALSE), geschrieben |-> TRUE]
             ELSE [wert |-> Selectbox(o, c, FALSE), geschrieben |-> FALSE]
        ELSE IF o = <<>>
        THEN [wert |-> Selectbox(<<>>, c, TRUE), geschrieben |-> FALSE]
        ELSE IF Len(o) = 1
        THEN IF c \notin Range(o)
             THEN [wert |-> Selectbox(o, o[1], FALSE), geschrieben |-> TRUE]
             ELSE [wert |-> Selectbox(o, c, FALSE), geschrieben |-> FALSE]
        ELSE [wert |-> Selectbox(o, c, TRUE), geschrieben |-> FALSE]
        : o \in {options}, c \in {current} } : TRUE

\* column col of the catalog rows that pass the test
Spalte(zeilen, col) == Unique([i \in DOMAIN zeilen |-> zeilen[i][col]])

\* Ausstattungslinien of a model, Motoren of a model and line
variationen_von(selected_model) ==
    IF selected_model # NoneWert
    THEN LET Passt(a) == a.Modell = selected_model
         IN  Spalte(SelectSeq(autos, Passt), "Ausstattungslinie")
    ELSE <<>>

motoren_von(selected_model, selected_variation) ==
    IF selected_model # NoneWert /\ selected_variation # NoneWert
    THEN LET Passt(a) == a.Modell = selected_model /\ a.Ausstattungslinie = selected_variation
         IN  Spalte(SelectSeq(autos, Passt), "Motor")
    ELSE <<>>

motor_info_von(selected_model, selected_variation, selected_engine) ==
    IF selected_engine # NoneWert
    THEN LET Passt(a) == /\ a.Modell = selected_model
                         /\ a.Ausstattungslinie = selected_variation
                         /\ a.Motor = selected_engine
         IN  SelectSeq(autos, Passt)
    ELSE <<>>

\* variant: the offers are filtered on the category alone
passende_leasing_nur_kategorie(leasing_df, bedingung_kraftstoff, bedingung_modell) ==
    LET Passt(z) == z.Bedingung_Kraftstoff = bedingung_kraftstoff
    IN  SelectSeq(leasing_df, Passt)

\* leasing[(Bedingung Kraftstoff == ...) & (Bedingung Modell == ...)]
passende_leasing_von(leasing_df, bedingung_kraftstoff, bedingung_modell) ==
    LET Passt(z) == /\ z.Bedingung_Kraftstoff = bedingung_kraftstoff
                    /\ z.Bedingung_Modell = bedingung_modell
    IN  SelectSeq(leasing_df, Passt)

\* passende_leasing[passende_leasing["Leasingoption"] == selected_leasing]
leasing_row_von(passende_leasing, selected_leasing) ==
    LET Passt(z) == z.Leasingoption = selected_leasing
    IN  SelectSeq(passende_leasing, Passt)

sprit_arten == <<"Super E10", "Super E5", "Super+">>

\* the Kraftstoff box of a slot with engine data, by fuel kind
selected_sprit_von(kf, current) ==
    IF kf \in {"benzin", "elektro/hybrid", "hybrid"}
    THEN auto_selectbox_single("Kraftstoff", sprit_arten, current, FALSE).wert
    ELSE IF kf = "diesel"
    THEN auto_selectbox_single("Kraftstoff", <<"Diesel">>, current, FALSE).wert
    ELSE IF kf = "elektro"
    THEN auto_selectbox_single("Kraftstoff", <<"Strom">>, current, FALSE).wert
    ELSE Selectbox(<<>>, current, TRUE)

\* A numeric session key holds <<>> while the key is absent and <<x>> once
\* it holds the number x.
LeererSlot ==
    [modell |-> NoneWert, variation |-> NoneWert, motor |-> NoneWert,
     last_motor |-> NoneWert, uvp |-> <<>>, sprit |-> NoneWert,
     verbrauch_l |-> <<>>, verbrauch_kwh |-> <<>>, leasing |-> NoneWert,
     rate |-> <<>>, time |-> <<>>, km |-> <<>>]

\* session value of a number input, or the value it is created with
Eingabe(key, default) == IF key # <<>> THEN key[1] ELSE default

\* the three selection boxes of a slot whose session keys are z
Auswahl(z) ==
    CHOOSE r \in {
        [z |-> z, selected_model |-> z.modell, selected_variation |-> v, selected_engine |-> e,
         motor_info |-> motor_info_von(z.modell, v, e)] :
        <<v, e>> \in {
            <<v, auto_selectbox_single("Motor", motoren_von(z.modell, v), z.motor,
                                       v = NoneWert).wert>> :
            v \in { auto_selectbox_single("Ausstattungslinie", variationen_von(z.modell),
                                          z.variation, z.modell = NoneWert).wert } } } : TRUE

\* engine data, defaults on a change of engine, UVP, Kraftstoff and consumption
\* inputs, for the selection a
Motorinfos(a) ==
    LET z == a.z
        has_motor == a.motor_info # <<>>
        neu == has_motor /\ z.last_motor # a.selected_engine
        uvp_default == IF has_motor THEN a.motor_info[1].Preis ELSE 0
        verbrauch_l_default == IF has_motor THEN a.motor_info[1].l_100km ELSE Zero
        verbrauch_kwh_default == IF has_motor THEN a.motor_info[1].kWh_100km ELSE Zero
        kraftstoff == IF has_motor THEN a.motor_info[1].Kraftstoff ELSE NoneWert
        kf == Lower(kraftstoff)
    IN  [z |-> z, selected_model |-> a.selected_model,
         selected_variation |-> a.selected_variation,
         selected_engine |-> a.selected_engine, motor_info |-> a.motor_info,
         has_motor |-> has_motor,
         bild |-> IF has_motor THEN a.motor_info[1].Bild ELSE "",
         kraftstoff |-> kraftstoff,
         last_motor |-> IF neu THEN a.selected_engine ELSE z.last_motor,
         uvp |-> Eingabe(IF neu THEN <<uvp_default>> ELSE z.uvp, uvp_default),
         vl |-> Eingabe(IF neu THEN <<Round1(verbrauch_l_default)>> ELSE z.verbrauch_l,
                        IF has_motor THEN Round1(verbrauch_l_default) ELSE Zero),
         vk |-> Eingabe(IF neu THEN <<Round1(verbrauch_kwh_default)>> ELSE z.verbrauch_kwh,
                        IF has_motor THEN Round1(verbrauch_kwh_default) ELSE Zero),
         selected_sprit |-> IF has_motor THEN selected_sprit_von(kf, z.sprit)
                            ELSE Selectbox(<<>>, z.sprit, TRUE),
         nur_strom |-> has_motor /\ kf = "elektro",
         nur_verbrenner |-> has_motor /\ kf \in {"benzin", "diesel"}]

\* the offers of the slot: resolver, filter, options and the Leasingoption box
Leasingwahl(m, leasing_df) ==
    CHOOSE r \in {
        [passende_leasing |-> p, leasing_options |-> o,
         selected_leasing |-> auto_selectbox_single("Leasingoption", o, m.z.leasing, FALSE).wert] :
        <<p, o>> \in {
            <<p, Unique([i \in DOMAIN p |-> p[i].Leasingoption])>> :
            p \in { IF m.has_motor
                    THEN passende_leasing_von(leasing_df,
                             find_leasing_bedingung(leasing_df, m.motor_info[1].Kategorie,
                                                    m.selected_model)[1],
                             find_leasing_bedingung(leasing_df, m.motor_info[1].Kategorie,
                                                    m.selected_model)[2])
                    ELSE <<>> } } } : TRUE

\* Rate, Laufzeit and Kilometer inputs, the locals of the pass and the session
\* keys after it.  The number inputs keep the value they are created with.
Eingaben(m, w) ==
    LET gewaehlt == w.selected_leasing # NoneWert
        leasing_row_pre == leasing_row_von(w.passende_leasing, w.selected_leasing)
        adjusted_rate == IF gewaehlt THEN leasing_row_pre[1].Leasingrate ELSE Zero
        adjusted_time == IF gewaehlt THEN leasing_row_pre[1].Laufzeit ELSE 0
        adjusted_km == IF gewaehlt THEN leasing_row_pre[1].Freikilometer ELSE 0
    IN  [selected_model |-> m.selected_model, selected_variation |-> m.selected_variation,
         selected_engine |-> m.selected_engine, has_motor |-> m.has_motor,
         kategorie |-> IF m.has_motor THEN m.motor_info[1].Kategorie ELSE NoneWert,
         bild |-> m.bild, kraftstoff |-> m.kraftstoff, uvp |-> m.uvp,
         selected_sprit |-> m.selected_sprit,
         verbrauch_input |-> IF m.nur_strom THEN Zero ELSE m.vl,
         verbrauch_input_strom |-> IF m.nur_verbrenner THEN Zero ELSE m.vk,
         passende_leasing |-> w.passende_leasing, leasing_options |-> w.leasing_options,
         selected_leasing |-> w.selected_leasing,
         adjusted_rate |-> adjusted_rate, adjusted_time |-> adjusted_time,
         adjusted_km |-> adjusted_km,
         state |-> [modell |-> m.selected_model, variation |-> m.selected_variation,
                    motor |-> m.selected_engine, last_motor |-> m.last_motor,
                    uvp |-> <<m.uvp>>, sprit |-> m.selected_sprit,
                    verbrauch_l |-> <<m.vl>>, verbrauch_kwh |-> <<m.vk>>,
                    leasing |-> w.selected_leasing, rate |-> <<adjusted_rate>>,
                    time |-> <<adjusted_time>>, km |-> <<adjusted_km>>]]

\* One pass of the loop body for a slot whose session keys are z0, up to the
\* buttons, with the rule table leasing_df: the locals of the pass and, in
\* state, the session keys after it.
SlotLaufMit(z0, leasing_df) ==
    CHOOSE r \in { Eingaben(mw[1], mw[2]) :
                     mw \in { <<m, Leasingwahl(m, leasing_df)>> :
                                m \in { Motorinfos(a) : a \in { Auswahl(z) : z \in {z0} } } } } : TRUE

SlotLauf(z0) == SlotLaufMit(z0, leasing)

\* the session keys of all slots after a full run of the script
Skript(sess) == [s \in Slots |-> SlotLauf(sess[s]).state]

\* variant: the keys of every slot are popped
clear_slot_state_alle(sess, slot_id) == [t \in Slots |-> LeererSlot]

\* clear_slot_state: the slot's keys are popped
clear_slot_state(sess, slot_id) == [sess EXCEPT ![slot_id] = LeererSlot]

\* variant: the entry of the slot is kept
OhneSlot_behaelt_alle(liste, slot_id) == liste

\* [r for r in ranking if r.get("Slot") != slot_id]
OhneSlot(liste, slot_id) ==
    LET Bleibt(r) == r.Slot # slot_id
    IN  SelectSeq(liste, Bleibt)

\* the dict appended by "Ranking aktualisieren"
RankingEintrag(slot_id, l) ==
    [Bild |-> l.bild, Slot |-> slot_id, Modell |-> l.selected_model,
     Ausstattungslinie |-> l.selected_variation, Motor |-> l.selected_engine,
     UVP |-> l.uvp, Leasingoption |-> l.selected_leasing,
     Freikilometer |-> l.adjusted_km, Kraftstoff |-> l.kraftstoff,
     Sprit |-> l.selected_sprit, Beschreibung |-> "",
     Verbrauch_L_100 |-> l.verbrauch_input, Verbrauch_kWh_100 |-> l.verbrauch_input_strom,
     Laufzeit_Monate |-> l.adjusted_time,
     Leasingrate_Faktor |-> RDiv(l.adjusted_rate, FromInt(100))]

\* fallback prices of the tier "avg" and the default of the Strom slider
FallbackAvg == PreisTabelle(Q(178, 100), Q(185, 100), Q(205, 100), Q(165, 100), Q(30, 100))

UiLeasingTabellen ==
    { SubSeq2(LeasingBasis, keep, 1) : keep \in {{1, 2, 3, 4}, {3, 4}, {1, 5, 6}, {}} }

InitUi ==
    /\ ss = Skript([s \in Slots |-> LeererSlot])
    /\ ranking_updated = FALSE
    /\ ranking_message_slot = NoneWert
    /\ ranking_message_text = ""
    /\ ausgabe = <<>>
    /\ schritte = 0

Init ==
    /\ PreiseFest
    /\ leasing \in UiLeasingTabellen
    /\ ranking = <<>>
    /\ spritpreise = FallbackAvg
    /\ kosten_df = <<>>
    /\ ranking_df = <<>>
    /\ anfrage = <<>>
    /\ bedingung = <<>>
    /\ InitUi

\* one more user interaction, up to MaxSchritte of them
Schritt == schritte < MaxSchritte /\ schritte' = schritte + 1

\* a widget got a new value: the script runs once with the new session state
Rerun(sess) ==
    /\ Schritt
    /\ ss' = Skript(sess)
    /\ kosten_df' = KostenDf(ranking, spritpreise)
    /\ \E sicht \in sort_values(kosten_df', "Gesamtkosten / Monat") :
          /\ ranking_df' = sicht
          /\ ranking' = ranking_nach_ansicht(ranking, sicht)
    /\ ausgabe' = <<>>
    /\ UNCHANGED <<preisVars, leasing, spritpreise, anfrage, bedingung,
                   ranking_updated, ranking_message_slot, ranking_message_text>>

\* the values the user can pick in a box: its options, and nothing when the
\* box can be cleared (index=None with several options)
Waehlbar(options) == Range(options) \cup (IF Len(options) > 1 THEN {NoneWert} ELSE {})

WaehleModell(s) ==
    \E m \in Range([i \in DOMAIN autos |-> autos[i].Modell]) \cup {NoneWert} :
        /\ m # ss[s].modell
        /\ Rerun([ss EXCEPT ![s].modell = m])

WaehleVariation(s) ==
    \E v \in Waehlbar(variationen_von(ss[s].modell)) :
        /\ v # ss[s].variation
        /\ Rerun([ss EXCEPT ![s].variation = v])

WaehleMotor(s) ==
    \E e \in Waehlbar(motoren_von(ss[s].modell, ss[s].variation)) :
        /\ e # ss[s].motor
        /\ Rerun([ss EXCEPT ![s].motor = e])

WaehleLeasing(s) ==
    \E l \in UNION { Waehlbar(lauf.leasing_options) : lauf \in {SlotLauf(ss[s])} } :
        /\ l # ss[s].leasing
        /\ Rerun([ss EXCEPT ![s].leasing = l])

\* variant: the handler stores the entry without looking at the selections
ranking_aktualisieren_ohne_pruefung(liste, s, l) ==
    <<"info", Append(OhneSlot(liste, s), RankingEintrag(s, l))>>

\* the handler of "Ranking aktualisieren" for the locals l of slot s:
\* <<kind of outcome, ranking after it>>
ranking_aktualisieren(liste, s, l) ==
    IF ~(/\ l.selected_model # NoneWert
         /\ l.selected_variation # NoneWert
         /\ l.selected_engine # NoneWert
         /\ l.selected_leasing # NoneWert
         /\ l.has_motor)
    THEN <<"warning", liste>>
    ELSE IF leasing_row_von(l.passende_leasing, l.selected_leasing) = <<>>
    THEN <<"error", liste>>
    ELSE <<"info", Append(OhneSlot(liste, s), RankingEintrag(s, l))>>

\* the text shown for an outcome of the handler
Meldung(art) ==
    CASE art = "warning" ->
           "Für dieses Fahrzeug werden Modell, Ausstattungslinie, Motor und Leasingoption benötigt."
      [] art = "error" ->
           "Leasingdaten nicht gefunden. Prüfen, ob leasing.csv und 'Leasingoption' zusammenpassen."
      [] OTHER -> "Ranking wurde aktualisiert."

\* button "Ranking aktualisieren" of slot s; after an update st.rerun() runs
\* the script again, which shows the message at slot s and clears it
RankingAktualisieren(s) ==
    \E erg \in { ranking_aktualisieren(ranking, s, SlotLauf(ss[s])) } :
        /\ Schritt
        /\ ranking_updated' = (ranking_updated \/ erg[1] = "info")
        /\ ausgabe' = <<erg[1], s, Meldung(erg[1]),
                        IF erg[1] = "info" THEN Len(ranking) + 1 - Len(erg[2]) ELSE 0>>
        /\ ss' = Skript(ss)
        /\ kosten_df' = KostenDf(erg[2], spritpreise)
        /\ \E sicht \in sort_values(kosten_df', "Gesamtkosten / Monat") :
              /\ ranking_df' = sicht
              /\ ranking' = ranking_nach_ansicht(erg[2], sicht)
        /\ ranking_message_slot' = NoneWert
        /\ ranking_message_text' = ""
        /\ UNCHANGED <<preisVars, leasing, spritpreise, anfrage, bedingung>>

\* button "Aus Ranking entfernen" of slot s; after a removal clear_slot_state
\* and st.rerun(): the script runs again, shows the message at slot s and clears it
AusRankingEntfernen(s) ==
    \E rest \in { OhneSlot(ranking, s) } :
        /\ Schritt
        /\ IF Len(rest) # Len(ranking)
           THEN /\ ranking_updated' = TRUE
                /\ ss' = Skript(clear_slot_state(ss, s))
                /\ ausgabe' = <<"info", s, "Fahrzeug wurde entfernt.", Len(ranking) - Len(rest)>>
           ELSE /\ ss' = Skript(ss)
                /\ ausgabe' = <<>>
                /\ UNCHANGED ranking_updated
        /\ kosten_df' = KostenDf(rest, spritpreise)
        /\ \E sicht \in sort_values(kosten_df', "Gesamtkosten / Monat") :
              /\ ranking_df' = sicht
              /\ ranking' = ranking_nach_ansicht(rest, sicht)
        /\ ranking_message_slot' = NoneWert
        /\ ranking_message_text' = ""
        /\ UNCHANGED <<preisVars, leasing, spritpreise, anfrage, bedingung>>

Next ==
    \E s \in Slots :
        \/ WaehleModell(s)
        \/ WaehleVariation(s)
        \/ WaehleMotor(s)
        \/ WaehleLeasing(s)
        \/ RankingAktualisieren(s)
        \/ AusRankingEntfernen(s)

Spec == Init /\ [][Next]_vars

----------------------------------------------------------------------------
(* Specification of the cost calculator: one input row and one price table  *)
(* are drawn, the ranking section applies berechne_kosten to the row.       *)

InitKosten ==
    /\ PreiseFest
    /\ leasing = <<>>
    /\ ranking \in { <<r>> : r \in KostenRows }
    /\ spritpreise \in PreisTabellen
    /\ kosten_df = <<>>
    /\ ranking_df = <<>>
    /\ anfrage = <<>>
    /\ bedingung = <<>>
    /\ InitUi

\* kosten_df = raw_df.apply(berechne_kosten, axis=1)
Berechne ==
    /\ ranking # <<>>
    /\ kosten_df = <<>>
    /\ kosten_df' = KostenDf(ranking, spritpreise)
    /\ \E sicht \in sort_values(kosten_df', "Gesamtkosten / Monat") :
          /\ ranking_df' = sicht
          /\ ranking' = ranking_nach_ansicht(ranking, sicht)
    /\ UNCHANGED <<preisVars, leasing, spritpreise, anfrage, bedingung, uiVars>>

NextKosten == Berechne

SpecKosten == InitKosten /\ [][NextKosten]_vars

----------------------------------------------------------------------------
(* Specification of the resolver: a rule table is drawn, the resolver is    *)
(* called with a category and a model name.                                 *)

InitResolver ==
    /\ PreiseFest
    /\ leasing \in LeasingTabellen
    /\ ranking = <<>>
    /\ spritpreise = PreisTabelle(Zero, Zero, Zero, Zero, Zero)
    /\ kosten_df = <<>>
    /\ ranking_df = <<>>
    /\ anfrage = <<>>
    /\ bedingung = <<>>
    /\ InitUi

Resolve(kategorie, modell) ==
    /\ anfrage' = <<kategorie, modell>>
    /\ bedingung' = find_leasing_bedingung(leasing, kategorie, modell)
    /\ UNCHANGED <<preisVars, leasing, ranking, spritpreise, kosten_df, ranking_df, uiVars>>

NextResolver == \E k \in Kategorien, m \in ModellNamen : Resolve(k, m)

SpecResolver == InitResolver /\ [][NextResolver]_vars

----------------------------------------------------------------------------
(* Specification of the ranking collection: the two buttons of every slot   *)
(* and the ranking section, for slots whose boxes and number inputs hold     *)
(* values a user can have put there.                                         *)

\* slots whose buttons are pressed
AnzahlRankingSlots == 2
RankingSlots == 1..AnzahlRankingSlots

\* the rule table of the sessions
RankingLeasing == LeasingBasis

GolfGTE == [LeererSlot EXCEPT !.modell = "Golf", !.variation = "GTE", !.motor = "1.5 eHybrid"]
GolfLife == [LeererSlot EXCEPT !.modell = "Golf", !.variation = "Life", !.motor = "1.5 TSI"]
NurModell == [LeererSlot EXCEPT !.modell = "Golf"]

\* the slots a button is pressed in: <<session keys of the slot, what the
\* user typed into the number inputs UVP and Rate (<<>> for nothing)>>
RankingFaelle ==
    { <<GolfGTE, <<>> >>, <<GolfGTE, <<45000, Q(8, 10)>> >>, <<GolfGTE, <<40000, Q(9, 10)>> >>,
      <<GolfLife, <<>> >>, <<NurModell, <<>> >> }

\* the locals of a pass over a slot with session keys z whose UVP and Rate
\* inputs return what the user typed
Lokale(z, e) ==
    CHOOSE r \in { IF e = <<>> THEN l ELSE [l EXCEPT !.uvp = e[1], !.adjusted_rate = e[2]] :
                   l \in { SlotLaufMit(z, RankingLeasing) } } : TRUE

\* the locals the handler of "Ranking aktualisieren" can meet
RankingLokale == { Lokale(f[1], f[2]) : f \in RankingFaelle }

InitRanking ==
    /\ PreiseFest
    /\ leasing = RankingLeasing
    /\ ranking = <<>>
    /\ spritpreise = FallbackAvg
    /\ kosten_df = <<>>
    /\ ranking_df = <<>>
    /\ anfrage = <<>>
    /\ bedingung = <<>>
    /\ InitUi

\* the ranking section of a script run over the stored list liste
Ansicht(liste) ==
    /\ kosten_df' = KostenDf(liste, spritpreise)
    /\ \E sicht \in sort_values(kosten_df', "Gesamtkosten / Monat") :
          /\ ranking_df' = sicht
          /\ ranking' = ranking_nach_ansicht(liste, sicht)

\* "Ranking aktualisieren" of slot s and the script run after it
Aktualisiere(s) ==
    \E l \in RankingLokale :
        \E erg \in { ranking_aktualisieren(ranking, s, l) } :
            /\ Ansicht(erg[2])
            /\ ausgabe' = <<erg[1], s, Meldung(erg[1]),
                        IF erg[1] = "info" THEN Len(ranking) + 1 - Len(erg[2]) ELSE 0>>
            /\ ranking_updated' = (ranking_updated \/ erg[1] = "info")
            /\ UNCHANGED <<preisVars, leasing, spritpreise, anfrage, bedingung, ss,
                           ranking_message_slot, ranking_message_text, schritte>>

\* "Aus Ranking entfernen" of slot s and the script run after it
Entferne(s) ==
    \E rest \in { OhneSlot(ranking, s) } :
        /\ Ansicht(rest)
        /\ ausgabe' = IF Len(rest) # Len(ranking)
                      THEN <<"info", s, "Fahrzeug wurde entfernt.", Len(ranking) - Len(rest)>>
                      ELSE <<>>
        /\ ranking_updated' = (ranking_updated \/ Len(rest) # Len(ranking))
        /\ UNCHANGED <<preisVars, leasing, spritpreise, anfrage, bedingung, ss,
                       ranking_message_slot, ranking_message_text, schritte>>

\* a script run without a button: the ranking section builds its view again
NeueAnsicht ==
    /\ Ansicht(ranking)
    /\ ausgabe' = <<>>
    /\ UNCHANGED <<preisVars, leasing, spritpreise, anfrage, bedingung, ss, ranking_updated,
                   ranking_message_slot, ranking_message_text, schritte>>

NextRanking ==
    \/ \E s \in RankingSlots : Aktualisiere(s)
    \/ \E s \in RankingSlots : Entferne(s)
    \/ NeueAnsicht

SpecRanking == InitRanking /\ [][NextRanking]_vars

----------------------------------------------------------------------------
(* Specification of the price section: time passes, and a script run reads   *)
(* the radio and the slider, calls get_fuel_stats through the two caches and *)
(* builds the price table.                                                   *)

MaxZeit == 450
Zeitschritte == {150, 300}

Stufen == {"min", "avg", "max"}
Stromwerte == {StromDefault}

\* entries of stations in the "prices" object; a price of 0 is what float()
\* makes of the false the feed reports for a fuel a station does not sell
InfoVoll == Info("open", Zahl(Q(1758, 1000)), Zahl(Q(1699, 1000)), Zahl(Q(1599, 1000)))
InfoNurE5 == Info("open", Zahl(Q(17984, 10000)), Null, Fehlt)
InfoZu == Info("closed", Zahl(Q(150, 100)), Zahl(Q(140, 100)), Zahl(Q(130, 100)))
InfoOhneE5 == Info("open", Zahl(Zero), Zahl(Q(17186, 10000)), Zahl(Q(1619, 1000)))

Stationen(i1, i2) == [s \in {"s1", "s2"} |-> IF s = "s1" THEN i1 ELSE i2]

\* the "prices" objects of the bodies: no station, one station, two stations
PricesObjekte ==
    {Leer}
    \cup [{"s1"} -> {InfoVoll, InfoNurE5, InfoZu, InfoOhneE5}]
    \cup { Stationen(InfoVoll, InfoNurE5), Stationen(InfoVoll, InfoZu),
           Stationen(InfoVoll, InfoOhneE5), Stationen(InfoNurE5, InfoOhneE5),
           Stationen(InfoZu, InfoNurE5), Stationen(InfoZu, InfoZu) }

\* what the body of get_fuel_prices can meet
Ausgaenge ==
    { Fehlschlag(art) : art \in {"stations_unreadable", "keine_ids", "network", "timeout",
                                 "http_status", "unparsable"} }
    \cup { Ausgang("body", "list", FALSE, FALSE, Leer),
           Ausgang("body", "dict", FALSE, TRUE, Leer),
           Ausgang("body", "dict", TRUE, FALSE, Leer) }
    \cup { Body(p) : p \in PricesObjekte }

KeinAufruf == [art |-> "none", wert |-> KeineStats, fehler |-> ""]

InitPreise ==
    /\ jetzt = 0
    /\ letzter_lauf = <<>>
    /\ stats_key = NoneWert
    /\ strompreis = StromDefault
    /\ prices_cache = <<>>
    /\ stats_cache = <<>>
    /\ fuel_stats = KeinAufruf
    /\ fuel_prices = <<>>
    /\ angefragt = FALSE
    /\ antwort = <<>>
    /\ abfragezeit = <<>>
    /\ grundlage = 0
    /\ spritpreise = [k \in {} |-> Zero]
    /\ leasing = <<>>
    /\ ranking = <<>>
    /\ kosten_df = <<>>
    /\ ranking_df = <<>>
    /\ anfrage = <<>>
    /\ bedingung = <<>>
    /\ InitUi

\* the times zeiten and then the time t, the last two of them
LetzteZwei(zeiten, t) == IF zeiten = <<>> THEN << t >> ELSE << zeiten[Len(zeiten)], t >>

\* d seconds pass
Tick(d) ==
    /\ jetzt + d <= MaxZeit
    /\ jetzt' = jetzt + d
    /\ UNCHANGED <<letzter_lauf, stats_key, strompreis, prices_cache, stats_cache, fuel_stats, fuel_prices,
                   angefragt, antwort, abfragezeit, grundlage>>
    /\ UNCHANGED <<leasing, ranking, spritpreise, kosten_df, ranking_df, anfrage, bedingung, uiVars>>

\* variant: the ranking section reads the price table of the pass before
tabelle_der_ansicht_vorher(vorher, neu) == vorher

\* the global spritpreise the ranking section reads: the table this pass built
tabelle_der_ansicht(vorher, neu) == neu

\* a pass of the script at the time jetzt: the radio is at key, the slider at
\* strom, the caches hold sc and pc, the body of get_fuel_prices ran at the
\* times az, and fd is what it meets if it runs; the price section builds the
\* table and the ranking section computes the costs of the stored list liste
Durchlauf(liste, key, strom, sc, pc, az, fd) ==
    /\ letzter_lauf' = << jetzt >>
    /\ stats_key' = key
    /\ strompreis' = strom
    /\ \E r \in { get_fuel_stats(sc, pc, jetzt, fd) } :
          /\ fuel_stats' = r.erg
          /\ fuel_prices' = r.prices
          /\ stats_cache' = r.stats_cache
          /\ prices_cache' = r.prices_cache
          /\ angefragt' = r.angefragt
          /\ antwort' = IF r.ausgefuehrt THEN << fd >> ELSE <<>>
          /\ abfragezeit' = IF r.ausgefuehrt THEN LetzteZwei(az, jetzt) ELSE az
          /\ grundlage' = IF r.erg.art = "ok" THEN r.stand ELSE grundlage
          /\ spritpreise' = preistabelle(key, r.erg, strom)
    /\ kosten_df' = KostenDf(liste, tabelle_der_ansicht(spritpreise, spritpreise'))
    /\ \E sicht \in sort_values(kosten_df', "Gesamtkosten / Monat") :
          /\ ranking_df' = sicht
          /\ ranking' = ranking_nach_ansicht(liste, sicht)
    /\ UNCHANGED <<jetzt, leasing, anfrage, bedingung>>

\* a script run with the radio at key and the slider at strom; fd is what the
\* body of get_fuel_prices meets if it runs
Skriptlauf(key, strom, fd) ==
    /\ schritte < MaxSchritte
    /\ schritte' = schritte + 1
    /\ Durchlauf(ranking, key, strom, stats_cache, prices_cache, abfragezeit, fd)
    /\ ausgabe' = <<>>
    /\ UNCHANGED <<ss, ranking_updated, ranking_message_slot, ranking_message_text>>

NextPreise ==
    \/ \E d \in Zeitschritte : Tick(d)
    \/ \E key \in Stufen, strom \in Stromwerte, fd \in Ausgaenge : Skriptlauf(key, strom, fd)

SpecPreise == InitPreise /\ [][NextPreise]_vars

----------------------------------------------------------------------------
(* Specification of whole passes: the user moves the radio or the slider,    *)
(* time passes and the feed answers, and the buttons of the slots change the *)
(* stored list; every pass builds the price table and then the costs.        *)

SkriptSlots == {1}
SkriptStufen == {"avg", "max"}
SkriptLokale == { Lokale(GolfGTE, <<>>), Lokale(GolfLife, <<>>) }
SkriptStromwerte == {StromDefault, Q(45, 100)}
\* a station that reports a negative price
InfoNegativ == Info("open", Zahl(Q(-1500, 1000)), Zahl(Q(1699, 1000)), Zahl(Q(1599, 1000)))

SkriptAusgaenge ==
    { Fehlschlag("timeout"),
      Ausgang("body", "list", FALSE, FALSE, Leer),
      Body([s \in {"s1"} |-> InfoVoll]),
      Body([s \in {"s1"} |-> InfoNegativ]) }

\* the caches and the times of the body runs after the price section of the
\* pass in which a button is pressed
NachKnopfdruck(fd) ==
    CHOOSE n \in { [sc |-> r.stats_cache, pc |-> r.prices_cache,
                    az |-> IF r.ausgefuehrt THEN LetzteZwei(abfragezeit, jetzt) ELSE abfragezeit] :
                   r \in { get_fuel_stats(stats_cache, prices_cache, jetzt, fd) } } : TRUE

\* "Ranking aktualisieren" of slot s with the locals l: the pass of the press
\* meets fd1, the handler stores the entry, st.rerun() starts the pass that
\* meets fd2
SkriptAktualisiere(s, l, fd1, fd2) ==
    /\ Schritt
    /\ \E erg \in { ranking_aktualisieren(ranking, s, l) } :
          /\ erg[1] = "info"
          /\ \E n \in { NachKnopfdruck(fd1) } :
                Durchlauf(erg[2], stats_key, strompreis, n.sc, n.pc, n.az, fd2)
          /\ ausgabe' = <<erg[1], s, Meldung(erg[1]), Len(ranking) + 1 - Len(erg[2])>>
    /\ ranking_updated' = TRUE
    /\ UNCHANGED <<ss, ranking_message_slot, ranking_message_text>>

\* "Aus Ranking entfernen" of slot s, which holds an entry
SkriptEntferne(s, fd1, fd2) ==
    /\ Schritt
    /\ \E rest \in { OhneSlot(ranking, s) } :
          /\ Len(rest) # Len(ranking)
          /\ \E n \in { NachKnopfdruck(fd1) } :
                Durchlauf(rest, stats_key, strompreis, n.sc, n.pc, n.az, fd2)
          /\ ausgabe' = <<"info", s, "Fahrzeug wurde entfernt.", Len(ranking) - Len(rest)>>
    /\ ranking_updated' = TRUE
    /\ UNCHANGED <<ss, ranking_message_slot, ranking_message_text>>

NextSkript ==
    \/ Tick(TTL)
    \/ \E key \in SkriptStufen, strom \in SkriptStromwerte, fd \in SkriptAusgaenge :
          Skriptlauf(key, strom, fd)
    \/ \E s \in SkriptSlots, l \in SkriptLokale, fd1, fd2 \in SkriptAusgaenge :
          SkriptAktualisiere(s, l, fd1, fd2)
    \/ \E s \in SkriptSlots, fd1, fd2 \in SkriptAusgaenge : SkriptEntferne(s, fd1, fd2)

SpecSkript == InitRanking /\ [][NextSkript]_vars

----------------------------------------------------------------------------
(* Specification of the two buttons of the slots, for sessions whose boxes  *)
(* hold selections a user can have made, number inputs that return what a   *)
(* user can have typed, and rule tables whose offers can lie outside the     *)
(* ranges of the number inputs.                                              *)

\* variant: st.number_input takes any default
Grenzfehler_nie(value, min_value, max_value) == FALSE

\* st.number_input(value=, min_value=, max_value=) raises when the default is
\* outside the range; max_value is <<>> for an input without upper limit
Grenzfehler(value, min_value, max_value) ==
    \/ RLess(value, min_value)
    \/ max_value # <<>> /\ RLess(max_value[1], value)

\* one of the number inputs UVP, Rate, Laufzeit and Kilometer of a pass with
\* the locals l raises: the script stops before the buttons of the slot
Eingabefehler(l) ==
    \/ Grenzfehler(FromInt(l.uvp), Zero, <<>>)
    \/ /\ l.selected_leasing # NoneWert
       /\ \/ Grenzfehler(l.adjusted_rate, Q(1, 10), <<Q(1, 1)>>)
          \/ Grenzfehler(FromInt(l.adjusted_time), FromInt(6), <<FromInt(12)>>)
          \/ Grenzfehler(FromInt(l.adjusted_km), Zero, <<>>)

\* offers of leasing.csv outside the ranges of the inputs Laufzeit and Rate
LeasingAusserhalb ==
    << LeasingZeile("Elektro/Hybrid", "Golf", "GTE 0", Q(9, 10), 0, 10000),
       LeasingZeile("Verbrenner", "Golf", "Golf 1.2", Q(12, 10), 12, 10000) >>

KnopfLeasingTabellen == {LeasingBasis, LeasingAusserhalb}

\* the session keys of a slot before the first pass
Vorlagen == {NurModell, GolfGTE, GolfLife}

\* what the user typed into UVP, Rate, Laufzeit and Kilometer (<<>> for
\* nothing): values the inputs accept
Getippt ==
    { <<>>, << [uvp |-> 0, rate |-> Q(1, 10), time |-> 7, km |-> 0] >> }

\* the locals of a pass over a slot with the session keys z whose enabled
\* number inputs return what the user typed
KnopfLokale(z, e) ==
    CHOOSE r \in {
        IF e = <<>> THEN l
        ELSE [l EXCEPT !.uvp = IF l.has_motor THEN e[1].uvp ELSE @,
                       !.adjusted_rate = IF l.selected_leasing # NoneWert THEN e[1].rate ELSE @,
                       !.adjusted_time = IF l.selected_leasing # NoneWert THEN e[1].time ELSE @,
                       !.adjusted_km = IF l.selected_leasing # NoneWert THEN e[1].km ELSE @] :
        l \in { SlotLauf(z) } } : TRUE

\* the pass reaches the buttons of slot s: no number input of the slots up
\* to s raised
Sichtbar(s) == \A t \in 1..s : ~Eingabefehler(SlotLauf(ss[t]))

InitKnopf ==
    /\ PreiseFest
    /\ leasing \in KnopfLeasingTabellen
    /\ ranking = <<>>
    /\ spritpreise = FallbackAvg
    /\ kosten_df = <<>>
    /\ ranking_df = <<>>
    /\ anfrage = <<>>
    /\ bedingung = <<>>
    /\ \E sess \in [Slots -> Vorlagen] : ss = Skript(sess)
    /\ ranking_updated = FALSE
    /\ ranking_message_slot = NoneWert
    /\ ranking_message_text = ""
    /\ ausgabe = <<>>
    /\ schritte = 0

\* button "Ranking aktualisieren" of slot s after the user typed e
KnopfAktualisieren(s) ==
    /\ Sichtbar(s)
    /\ Schritt
    /\ \E e \in Getippt :
          \E erg \in { ranking_aktualisieren(ranking, s, KnopfLokale(ss[s], e)) } :
              /\ ranking_updated' = (ranking_updated \/ erg[1] = "info")
              /\ ausgabe' = <<erg[1], s, Meldung(erg[1]),
                              IF erg[1] = "info" THEN Len(ranking) + 1 - Len(erg[2]) ELSE 0>>
              /\ ss' = Skript(ss)
              /\ kosten_df' = KostenDf(erg[2], spritpreise)
              /\ \E sicht \in sort_values(kosten_df', "Gesamtkosten / Monat") :
                    /\ ranking_df' = sicht
                    /\ ranking' = ranking_nach_ansicht(erg[2], sicht)
    /\ ranking_message_slot' = NoneWert
    /\ ranking_message_text' = ""
    /\ UNCHANGED <<preisVars, leasing, spritpreise, anfrage, bedingung>>

\* button "Aus Ranking entfernen" of slot s
KnopfEntfernen(s) == Sichtbar(s) /\ AusRankingEntfernen(s)

NextKnopf ==
    \/ \E s \in Slots : KnopfAktualisieren(s)
    \/ \E s \in Slots : KnopfEntfernen(s)

SpecKnopf == InitKnopf /\ [][NextKnopf]_vars

----------------------------------------------------------------------------
(* Specification of auto_selectbox_single as a function of its arguments    *)
(* and of the session key it is called with.                                 *)

MaxOptionen == 2

SelectboxWerte == {"Super E10", "Super E5"}

\* the calls: label, options, value of the session key (NoneWert while the
\* key is absent) and disabled
SelectboxAufrufe ==
    [label : {"Kraftstoff", "Motor"},
     options : UNION { [1..n -> SelectboxWerte] : n \in 0..MaxOptionen },
     key : SelectboxWerte \cup {NoneWert, "Diesel"},
     disabled : BOOLEAN]

InitSelectbox ==
    /\ PreiseFest
    /\ leasing = LeasingBasis
    /\ ranking = <<>>
    /\ spritpreise = FallbackAvg
    /\ kosten_df = <<>>
    /\ ranking_df = <<>>
    /\ anfrage \in SelectboxAufrufe
    /\ bedingung = <<>>
    /\ InitUi

\* the call of auto_selectbox_single: what the box returns, whether the
\* helper wrote the session key, and the key after the helper's own writes
Aufruf ==
    /\ ausgabe = <<>>
    /\ \E r \in { auto_selectbox_single(anfrage.label, anfrage.options, anfrage.key,
                                         anfrage.disabled) } :
          ausgabe' = << [wert |-> r.wert, geschrieben |-> r.geschrieben,
                         key |-> IF r.geschrieben THEN anfrage.options[1] ELSE anfrage.key] >>
    /\ UNCHANGED <<preisVars, leasing, ranking, spritpreise, kosten_df, ranking_df, anfrage,
                   bedingung, ss, ranking_updated, ranking_message_slot, ranking_message_text,
                   schritte>>

NextSelectbox == Aufruf

SpecSelectbox == InitSelectbox /\ [][NextSelectbox]_vars

----------------------------------------------------------------------------
(* Properties                                                               *)

\* the rows for which the ranking section has computed a cost record
Berechnete == IF Len(kosten_df) = Len(ranking) THEN 1..Len(kosten_df) ELSE {}

IstVerbrenner(r) == Lower(r.Kraftstoff) \in {"benzin", "diesel"}

\* listPrice * rateFraction
Basis(r) == RMul(FromInt(r.UVP), r.Leasingrate_Faktor)

\* max(floor(listPrice * 0.01) - listPrice * rateFraction, 0), for an integer list price
Vorteil(r) == RMax(RSub(FromInt(r.UVP \div 100), Basis(r)), Zero)

\* benefit-in-kind and surcharge as the specification states them
Geldwert(r) ==
    IF IstVerbrenner(r) /\ RLess(r.Leasingrate_Faktor, Q(1, 100)) THEN Vorteil(r) ELSE Zero

Aufschlag(r) == RDiv(Geldwert(r), FromInt(3))

\* (mileage / 100) * consumption * unit price / term
Anteil(r, verbrauch, preis) ==
    RDiv(RMul(RMul(Q(r.Freikilometer, 100), verbrauch), preis), FromInt(r.Laufzeit_Monate))

VerbrennerAnteil(r) == Anteil(r, r.Verbrauch_L_100, PreisGet(spritpreise, r.Sprit))
StromAnteil(r) == Anteil(r, r.Verbrauch_kWh_100, PreisGet(spritpreise, "Strom"))

Innerhalb(total, monat, laufzeit, toleranz) ==
    RLeq(RAbs(RSub(total, RMul(monat, FromInt(laufzeit)))), toleranz)

\* the (category, model) keys of the rule table
Partitionen ==
    { <<leasing[i].Bedingung_Kraftstoff, leasing[i].Bedingung_Modell>> : i \in DOMAIN leasing }

\* C1: the resolver returns (category, model) if the table has a row with that
\* category and model, else (category, "Rest") if it has a row with that
\* category and "Rest", else (category, model); with only a
\* ("Verbrenner", "Rest") partition, ("Verbrenner", "UnknownModel") resolves
\* to ("Verbrenner", "Rest").
C1_Resolver ==
    anfrage # <<>> =>
        LET k == anfrage[1]  m == anfrage[2] IN
        /\ <<k, m>> \in Partitionen => bedingung = <<k, m>>
        /\ (<<k, m>> \notin Partitionen /\ <<k, "Rest">> \in Partitionen) => bedingung = <<k, "Rest">>
        /\ (<<k, m>> \notin Partitionen /\ <<k, "Rest">> \notin Partitionen) => bedingung = <<k, m>>
        /\ (anfrage = <<"Verbrenner", "UnknownModel">> /\ Partitionen = {<<"Verbrenner", "Rest">>})
             => bedingung = <<"Verbrenner", "Rest">>

\* exact and "Rest" partition both exist and the exact one is returned
C1_Witness ==
    /\ anfrage = <<"Verbrenner", "Caddy">>
    /\ <<"Verbrenner", "Caddy">> \in Partitionen
    /\ <<"Verbrenner", "Rest">> \in Partitionen
    /\ bedingung = <<"Verbrenner", "Caddy">>

\* the table has neither the partition (k, m) nor the partition (k, "Rest")
OhnePartition(k, m) == <<k, m>> \notin Partitionen /\ <<k, "Rest">> \notin Partitionen

\* the offers filtered on the key the resolver returns for (k, m)
Angebote(k, m) ==
    CHOOSE p \in { passende_leasing_von(leasing, key[1], key[2]) :
                     key \in { find_leasing_bedingung(leasing, k, m) } } : TRUE

\* the engine of slot s is known and the table has no partition for its car
SlotOhneAngebot(s) ==
    \E l \in { SlotLauf(ss[s]) } : l.has_motor /\ OhnePartition(l.kategorie, l.selected_model)

\* C2: the offers filtered on the resolver's key are empty exactly when the
\* table has neither the exact partition nor the "Rest" partition of the
\* category; a slot in that case has no leasing option and no selected offer,
\* and "Ranking aktualisieren" there gives the warning and leaves the ranking
\* as it is.
C2_NoOffers ==
    /\ [](/\ \A k \in Kategorien, m \in ModellNamen :
                (Angebote(k, m) = <<>>) <=> OhnePartition(k, m)
          /\ \A s \in Slots : \A l \in { SlotLauf(ss[s]) } :
                /\ l.has_motor =>
                     l.passende_leasing = Angebote(l.kategorie, l.selected_model)
                /\ (l.has_motor /\ OhnePartition(l.kategorie, l.selected_model)) =>
                     /\ l.leasing_options = <<>>
                     /\ l.selected_leasing = NoneWert
                     /\ ss[s].leasing = NoneWert
                     /\ l.adjusted_rate = Zero /\ l.adjusted_time = 0 /\ l.adjusted_km = 0)
    /\ [][\A s \in Slots :
            (SlotOhneAngebot(s) /\ RankingAktualisieren(s)) =>
                /\ ranking' = ranking
                /\ ausgabe'[1] = "warning" /\ ausgabe'[2] = s]_vars

\* "Ranking aktualisieren" was pressed at a slot whose car has no partition,
\* while another slot's car is in the ranking
C2_Witness ==
    /\ ausgabe # <<>>
    /\ ausgabe[1] = "warning"
    /\ SlotOhneAngebot(ausgabe[2])
    /\ ranking # <<>>
    /\ \A i \in DOMAIN ranking : ranking[i].Slot # ausgabe[2]

\* C3 as stated: with term > 0 every reported total is within 0.01 of the
\* reported monthly figure times the term.
C3_Original ==
    \A i \in Berechnete :
        LET r == ranking[i]  k == kosten_df[i]  t == r.Laufzeit_Monate IN
        t > 0 =>
            /\ Innerhalb(k["Leasingkosten (Gesamt)"], k["Leasingkosten / Monat"], t, Q(1, 100))
            /\ Innerhalb(k["Spritkosten (Gesamt)"], k["Spritkosten / Monat"], t, Q(1, 100))
            /\ Innerhalb(k["Kosten (Gesamt)"], k["Gesamtkosten / Monat"], t, Q(1, 100))

\* C3 (amended): with term > 0 every reported total is within
\* 0.005 * (term + 1) of the reported monthly figure times the term (both
\* figures are rounded to 2 decimals independently from the unrounded value).
C3_TotalsWithinRounding ==
    \A i \in Berechnete :
        LET r == ranking[i]  k == kosten_df[i]  t == r.Laufzeit_Monate IN
        t > 0 =>
            /\ Innerhalb(k["Leasingkosten (Gesamt)"], k["Leasingkosten / Monat"], t, Q(5 * (t + 1), 1000))
            /\ Innerhalb(k["Spritkosten (Gesamt)"], k["Spritkosten / Monat"], t, Q(5 * (t + 1), 1000))
            /\ Innerhalb(k["Kosten (Gesamt)"], k["Gesamtkosten / Monat"], t, Q(5 * (t + 1), 1000))

\* a record with term 12 whose leasing total differs from 12 times the monthly figure
C3_Witness ==
    \E i \in Berechnete :
        /\ ranking[i].Laufzeit_Monate = 12
        /\ kosten_df[i]["Leasingkosten (Gesamt)"]
             # RMul(kosten_df[i]["Leasingkosten / Monat"], FromInt(12))

\* C4: with term <= 0 the monthly and total fuel cost, the total leasing cost
\* and the total combined cost are 0 and the monthly leasing cost is
\* listPrice * rateFraction plus the surcharge, rounded to 2 decimals.
C4_DegenerateTerm ==
    \A i \in Berechnete :
        LET r == ranking[i]  k == kosten_df[i] IN
        r.Laufzeit_Monate <= 0 =>
            /\ k["Spritkosten / Monat"] = Zero
            /\ k["Spritkosten (Gesamt)"] = Zero
            /\ k["Leasingkosten (Gesamt)"] = Zero
            /\ k["Kosten (Gesamt)"] = Zero
            /\ k["Leasingkosten / Monat"] = Round2(RAdd(Basis(r), Aufschlag(r)))

\* term 0, a surcharge applies, mileage, consumption and price are not 0
C4_Witness ==
    \E i \in Berechnete :
        /\ ranking[i].Laufzeit_Monate = 0
        /\ Aufschlag(ranking[i]) # Zero
        /\ ranking[i].Kraftstoff = "Diesel"
        /\ ranking[i].Sprit = "Diesel"

C6_Surcharge ==
    \A i \in Berechnete :
        LET r == ranking[i]  k == kosten_df[i]
            a == RDiv(Vorteil(r), FromInt(3)) IN
        IstVerbrenner(r) =>
            IF RLess(r.Leasingrate_Faktor, Q(1, 100))
            THEN /\ k["Steuerlicher Aufschlag / Monat"] = Round2(a)
                 /\ k["Geldwerter Vorteil / Monat"] = Round2(Vorteil(r))
                 /\ k["Leasingkosten / Monat"] = Round2(RAdd(Basis(r), a))
                 /\ RLeq(Zero, k["Steuerlicher Aufschlag / Monat"])
            ELSE /\ k["Steuerlicher Aufschlag / Monat"] = Zero
                 /\ k["Geldwerter Vorteil / Monat"] = Zero
                 /\ k["Leasingkosten / Monat"] = Round2(Basis(r))

\* list price 150 at 0.9 %: floor(1.5) = 1 is below the rate of 1.35, the
\* surcharge is clamped to 0 (rounding the benchmark to 2 would give 0.65 / 3)
C6_Witness ==
    \E i \in Berechnete :
        /\ IstVerbrenner(ranking[i])
        /\ ranking[i].UVP = 150
        /\ ranking[i].Leasingrate_Faktor = Q(9, 1000)
        /\ kosten_df[i]["Steuerlicher Aufschlag / Monat"] = Zero

\* C7: for every fuel kind other than Benzin and Diesel the benefit-in-kind
\* and the surcharge are 0 at every rate and the monthly leasing cost is
\* listPrice * rateFraction.
C7_NoSurchargeForOthers ==
    \A i \in Berechnete :
        LET r == ranking[i]  k == kosten_df[i] IN
        Lower(r.Kraftstoff) \notin {"benzin", "diesel"} =>
            /\ k["Steuerlicher Aufschlag / Monat"] = Zero
            /\ k["Geldwerter Vorteil / Monat"] = Zero
            /\ k["Leasingkosten / Monat"] = Round2(Basis(r))

\* a hybrid below 1 % whose list price would carry a surcharge as a Benzin
C7_Witness ==
    \E i \in Berechnete :
        /\ ranking[i].Kraftstoff = "Hybrid"
        /\ ranking[i].Leasingrate_Faktor = Q(9, 1000)
        /\ ranking[i].UVP = 30000
        /\ kosten_df[i]["Leasingkosten / Monat"] = Q(270, 1)

ScenarioA(r) ==
    /\ r.UVP = 30000 /\ r.Leasingrate_Faktor = Q(9, 1000) /\ r.Kraftstoff = "Benzin"
    /\ r.Verbrauch_L_100 = Q(6, 1) /\ PreisGet(spritpreise, r.Sprit) = Q(180, 100)
    /\ r.Freikilometer = 15000 /\ r.Laufzeit_Monate = 12

\* C8: with term > 0 the monthly leasing cost is base plus surcharge and that
\* value feeds the leasing total, the combined monthly cost and the combined
\* total; scenario A gives 280.00, 135.00, 415.00 and 4980.00.
C8_EffectiveLeasing ==
    \A i \in Berechnete :
        LET r == ranking[i]  k == kosten_df[i]  t == r.Laufzeit_Monate
            eff == RAdd(Basis(r), Aufschlag(r))
            sprit == IF IstVerbrenner(r) THEN VerbrennerAnteil(r)
                     ELSE IF Lower(r.Kraftstoff) = "elektro" THEN StromAnteil(r)
                     ELSE IF Lower(r.Kraftstoff) \in {"hybrid", "elektro/hybrid"}
                          THEN RAdd(VerbrennerAnteil(r), StromAnteil(r))
                     ELSE Zero IN
        t > 0 =>
            /\ k["Leasingkosten / Monat"] = Round2(eff)
            /\ k["Leasingkosten (Gesamt)"] = Round2(RMul(eff, FromInt(t)))
            /\ k["Gesamtkosten / Monat"] = Round2(RAdd(eff, sprit))
            /\ k["Kosten (Gesamt)"] = Round2(RMul(RAdd(eff, sprit), FromInt(t)))
            /\ ScenarioA(r) =>
                /\ k["Leasingkosten / Monat"] = Q(280, 1)
                /\ k["Steuerlicher Aufschlag / Monat"] = Q(10, 1)
                /\ k["Spritkosten / Monat"] = Q(135, 1)
                /\ k["Gesamtkosten / Monat"] = Q(415, 1)
                /\ k["Kosten (Gesamt)"] = Q(4980, 1)

C8_Witness ==
    \E i \in Berechnete :
        /\ ScenarioA(ranking[i])
        /\ kosten_df[i]["Kosten (Gesamt)"] = Q(4980, 1)

\* C9: with term > 0 a Benzin or Diesel vehicle's monthly fuel cost is
\* mileage / 100 * combustion consumption * price of the selected fuel / term,
\* whatever its electric consumption and the "Strom" price; an Elektro
\* vehicle's is mileage / 100 * electric consumption * "Strom" price / term,
\* whatever its combustion consumption and selected fuel.
C9_FuelCostByKind ==
    \A i \in Berechnete :
        LET r == ranking[i]  k == kosten_df[i] IN
        r.Laufzeit_Monate > 0 =>
            /\ IstVerbrenner(r) =>
                /\ k["Spritkosten / Monat"] = Round2(VerbrennerAnteil(r))
                /\ k["Spritkosten (Gesamt)"] = Round2(RMul(VerbrennerAnteil(r), FromInt(r.Laufzeit_Monate)))
            /\ Lower(r.Kraftstoff) = "elektro" =>
                /\ k["Spritkosten / Monat"] = Round2(StromAnteil(r))
                /\ k["Spritkosten (Gesamt)"] = Round2(RMul(StromAnteil(r), FromInt(r.Laufzeit_Monate)))

\* a Diesel with an electric consumption and an Elektro with a combustion
\* consumption: the other consumption does not enter the fuel cost
C9_Witness ==
    \E i \in Berechnete :
        LET r == ranking[i] IN
        /\ r.Laufzeit_Monate = 6
        /\ r.Kraftstoff \in {"Diesel", "Elektro"}
        /\ r.Verbrauch_kWh_100 = Q(14, 1)
        /\ r.Verbrauch_L_100 = Q(6, 1)
        /\ r.Sprit = "Diesel"
        /\ kosten_df[i]["Spritkosten / Monat"] # Zero

ScenarioC(r) ==
    /\ r.Kraftstoff = "Hybrid"
    /\ r.Verbrauch_L_100 = Q(15, 10) /\ PreisGet(spritpreise, r.Sprit) = Q(185, 100)
    /\ r.Verbrauch_kWh_100 = Q(14, 1) /\ PreisGet(spritpreise, "Strom") = Q(30, 100)
    /\ r.Freikilometer = 10000 /\ r.Laufzeit_Monate = 6

\* C10: with term > 0 a Hybrid or Elektro/Hybrid vehicle's monthly fuel cost
\* is the sum of the combustion term and the electric term; scenario C gives
\* 46.25 + 70.00 = 116.25.
C10_HybridFuelCost ==
    \A i \in Berechnete :
        LET r == ranking[i]  k == kosten_df[i] IN
        (r.Laufzeit_Monate > 0 /\ Lower(r.Kraftstoff) \in {"hybrid", "elektro/hybrid"}) =>
            /\ k["Spritkosten / Monat"] = Round2(RAdd(VerbrennerAnteil(r), StromAnteil(r)))
            /\ ScenarioC(r) =>
                /\ VerbrennerAnteil(r) = Q(4625, 100)
                /\ StromAnteil(r) = Q(70, 1)
                /\ k["Spritkosten / Monat"] = Q(11625, 100)

C10_Witness ==
    \E i \in Berechnete :
        /\ ScenarioC(ranking[i])
        /\ kosten_df[i]["Spritkosten / Monat"] = Q(11625, 100)

\* the fuel kind of row r is none of Benzin, Diesel, Elektro, Hybrid,
\* Elektro/Hybrid, compared case-insensitively
Unbekannt(r) ==
    Lower(r.Kraftstoff) \notin {"benzin", "diesel", "elektro", "hybrid", "elektro/hybrid"}

\* C11: for a fuel kind that is not recognized the cost record exists, the
\* monthly and total fuel cost are 0, and the leasing and combined costs are
\* those of listPrice * rateFraction alone (per month, and times the term
\* when the term is positive).
C11_UnrecognizedFuel ==
    \A i \in Berechnete :
        LET r == ranking[i]  k == kosten_df[i] IN
        Unbekannt(r) =>
            /\ k["Spritkosten / Monat"] = Zero
            /\ k["Spritkosten (Gesamt)"] = Zero
            /\ k["Geldwerter Vorteil / Monat"] = Zero
            /\ k["Steuerlicher Aufschlag / Monat"] = Zero
            /\ k["Leasingkosten / Monat"] = Round2(Basis(r))
            /\ k["Gesamtkosten / Monat"] = Round2(Basis(r))
            /\ r.Laufzeit_Monate > 0 =>
                 /\ k["Leasingkosten (Gesamt)"] = Round2(RMul(Basis(r), FromInt(r.Laufzeit_Monate)))
                 /\ k["Kosten (Gesamt)"] = Round2(RMul(Basis(r), FromInt(r.Laufzeit_Monate)))
            /\ r.Laufzeit_Monate <= 0 =>
                 /\ k["Leasingkosten (Gesamt)"] = Zero
                 /\ k["Kosten (Gesamt)"] = Zero

\* a cost record of a "Gas" vehicle with positive term, consumption and price
C11_Witness ==
    \E i \in Berechnete :
        /\ ranking[i].Kraftstoff = "Gas"
        /\ ranking[i].Laufzeit_Monate = 12
        /\ ranking[i].Verbrauch_kWh_100 # Zero
        /\ ranking[i].Leasingrate_Faktor = Q(9, 1000)
        /\ PreisGet(spritpreise, ranking[i].Sprit) # Zero
        /\ kosten_df[i]["Kosten (Gesamt)"] # Zero

\* the combined cost per month of the row with index label i
KostenMonat(i) == kosten_df[i]["Gesamtkosten / Monat"]

\* the view holds the index labels of the cost records
MitAnsicht == Len(ranking_df) = Len(ranking) /\ Len(kosten_df) = Len(ranking)

\* C12 as stated: the view is in ascending order of combined cost per month
\* and rows of equal combined cost per month are in ascending order of UVP.
C12_Original ==
    MitAnsicht =>
        \A i \in 1..(Len(ranking_df) - 1) :
            LET a == ranking_df[i]  b == ranking_df[i + 1] IN
            /\ RLeq(KostenMonat(a), KostenMonat(b))
            /\ KostenMonat(a) = KostenMonat(b) => ranking[a].UVP <= ranking[b].UVP

\* two rows of equal combined cost per month, the one of the higher UVP shown
\* first
C12_Witness ==
    /\ MitAnsicht
    /\ \E i \in 1..(Len(ranking_df) - 1) :
          /\ KostenMonat(ranking_df[i]) = KostenMonat(ranking_df[i + 1])
          /\ ranking[ranking_df[i]].UVP > ranking[ranking_df[i + 1]].UVP

\* the view is an order of exactly the index labels of the stored list
IstPermutation(sicht, n) == Len(sicht) = n /\ { sicht[i] : i \in DOMAIN sicht } = 1..n

\* the stored list new is old after a button handler: old itself, old
\* without the entry of a slot, or old without the entry of a slot and with a
\* new entry of that slot at the end
NachHandler(old, new) ==
    \/ new = old
    \/ \E s \in RankingSlots :
          \/ new = OhneSlot(old, s)
          \/ /\ new # <<>>
             /\ new[Len(new)].Slot = s
             /\ SubSeq(new, 1, Len(new) - 1) = OhneSlot(old, s)

\* every step writes ausgabe: a script run without a button, or with an
\* "Aus Ranking entfernen" that found no entry, leaves it empty
OhneKnopf == ausgabe' = <<>>

\* the step is a successful "Ranking aktualisieren" of slot s
HatAktualisiert(s) ==
    /\ ausgabe' # <<>>
    /\ ausgabe'[1] = "info"
    /\ ausgabe'[2] = s
    /\ ausgabe'[3] = Meldung("info")

\* the step is an "Aus Ranking entfernen" of slot s that found an entry
HatEntfernt(s) ==
    /\ ausgabe' # <<>>
    /\ ausgabe'[2] = s
    /\ ausgabe'[3] = "Fahrzeug wurde entfernt."

\* C13: the view is a permutation of the entries of the stored list, a script
\* run without a button leaves the stored list as it is, and after a button
\* the stored list is what the handler wrote, in insertion order, whatever
\* the order of the view.
C13_ViewDoesNotMutate ==
    /\ [](MitAnsicht /\ IstPermutation(ranking_df, Len(ranking)))
    /\ [][OhneKnopf => ranking' = ranking]_vars
    /\ [][NachHandler(ranking, ranking')]_vars

\* the view shows the stored entries in another order than they are stored
C13_Witness ==
    /\ Len(ranking) = 2
    /\ ranking_df = <<2, 1>>
    /\ RLess(KostenMonat(2), KostenMonat(1))
    /\ ranking[1].Slot = 1

\* the slots of the entries of the stored list
SlotsVon(liste) == { liste[i].Slot : i \in DOMAIN liste }

\* C14: the stored list holds at most one entry per slot, hence at most as
\* many entries as there are slots; a successful "Ranking aktualisieren" of a
\* slot leaves exactly one entry of that slot, the new selection, at the end
\* and the entries of the other slots as they were; "Aus Ranking entfernen"
\* leaves the entries of the other slots as they were.
C14_OneEntryPerSlot ==
    /\ [](/\ \A i, j \in DOMAIN ranking : ranking[i].Slot = ranking[j].Slot => i = j
          /\ SlotsVon(ranking) \subseteq RankingSlots
          /\ Len(ranking) <= AnzahlRankingSlots)
    /\ [][\A s \in RankingSlots :
            /\ HatAktualisiert(s) =>
                 /\ ranking' # <<>>
                 /\ ranking'[Len(ranking')].Slot = s
                 /\ OhneSlot(ranking', s) = OhneSlot(ranking, s)
                 /\ Len(ranking') = Len(OhneSlot(ranking, s)) + 1
                 /\ \E l \in RankingLokale : ranking'[Len(ranking')] = RankingEintrag(s, l)
            /\ HatEntfernt(s) =>
                 /\ s \in SlotsVon(ranking)
                 /\ s \notin SlotsVon(ranking')
                 /\ ranking' = OhneSlot(ranking, s)]_vars

\* every slot has an entry and the last update replaced the entry of a slot
\* by another selection
C14_Witness ==
    /\ Len(ranking) = AnzahlRankingSlots
    /\ ausgabe # <<>>
    /\ ausgabe[1] = "info"
    /\ ausgabe[3] = "Ranking wurde aktualisiert."
    /\ ausgabe[4] = 1
    /\ ranking[Len(ranking)].Slot = ausgabe[2]
    /\ ranking[Len(ranking)].UVP = 40000

\* the outcomes of the feed that are failures: no body, a body of another
\* shape than an object with an object "prices", or a body whose "ok" is false
Fehlausgang(fd) ==
    \/ fd.art # "body"
    \/ fd.typ # "dict"
    \/ ~fd.ok
    \/ ~fd.prices_dict

\* C15: get_fuel_prices never raises, and for every failure of the feed
\* (station list unreadable, network error, timeout, HTTP error status,
\* unparsable body, a body of another shape than expected, a body with ok
\* false) it returns an empty dict.
C15_Original ==
    \A i \in DOMAIN fuel_prices :
        /\ fuel_prices[i].art = "ok"
        /\ \A j \in DOMAIN antwort : Fehlausgang(antwort[j]) => fuel_prices[i] = Wert(Leer)

\* the feed answered with a body that is a JSON list, and get_fuel_prices
\* raised
C15_Witness ==
    /\ antwort = << Ausgang("body", "list", FALSE, FALSE, Leer) >>
    /\ angefragt
    /\ fuel_prices # <<>>
    /\ fuel_prices[1].art = "raise"
    /\ fuel_prices[1].fehler = "AttributeError"

\* the stations of the body the last run received that are open and report
\* a value for the fuel
Offene(fuel) ==
    { s \in DOMAIN antwort[1].prices :
        /\ antwort[1].prices[s].status = "open"
        /\ antwort[1].prices[s][fuel].da
        /\ ~antwort[1].prices[s][fuel].null }

\* the value of the station s for the fuel, rounded to 3 decimals
Gemeldet(s, fuel) == Round3(antwort[1].prices[s][fuel].wert)

\* C16: when get_fuel_stats computes statistics from a body, then for each of
\* e5, e10 and diesel: with no open station reporting a value, min, avg and
\* max are None; otherwise min and max are the least and the greatest of the
\* values of the open stations rounded to 3 decimals, and avg is a multiple of
\* 0.001 within 0.0005 of their mean.  The values of closed stations count
\* for nothing.
C16_Statistics ==
    (antwort # <<>> /\ fuel_stats.art = "ok") =>
        \A fuel \in kraftstoffe :
            \E S \in { Offene(fuel) } :
                IF S = {}
                THEN \A welche \in {"min", "avg", "max"} : fuel_stats.wert[welche][fuel] = Null
                ELSE /\ \A welche \in {"min", "avg", "max"} :
                          /\ fuel_stats.wert[welche][fuel].da
                          /\ ~fuel_stats.wert[welche][fuel].null
                     /\ \E s \in S : fuel_stats.wert["min"][fuel].wert = Gemeldet(s, fuel)
                     /\ \A s \in S : RLeq(fuel_stats.wert["min"][fuel].wert, Gemeldet(s, fuel))
                     /\ \E s \in S : fuel_stats.wert["max"][fuel].wert = Gemeldet(s, fuel)
                     /\ \A s \in S : RLeq(Gemeldet(s, fuel), fuel_stats.wert["max"][fuel].wert)
                     /\ \E avg \in { fuel_stats.wert["avg"][fuel].wert } :
                          /\ Round3(avg) = avg
                          /\ RLeq(RAbs(RSub(RMul(avg, FromInt(Cardinality(S))),
                                            Summe(antwort[1].prices, S, fuel))),
                                  Q(Cardinality(S), 2000))

\* the body held a closed station with lower prices and an open station with
\* a price for e5 only: the statistics of e5 are that price rounded, those of
\* e10 and diesel are None
C16_Witness ==
    /\ antwort = << Body(Stationen(InfoZu, InfoNurE5)) >>
    /\ fuel_stats.art = "ok"
    /\ fuel_stats.wert["min"]["e5"] = Zahl(Q(1798, 1000))
    /\ fuel_stats.wert["avg"]["e5"] = Zahl(Q(1798, 1000))
    /\ fuel_stats.wert["max"]["e5"] = Zahl(Q(1798, 1000))
    /\ fuel_stats.wert["avg"]["e10"] = Null
    /\ fuel_stats.wert["max"]["diesel"] = Null

\* the last run received a body with ok true in which no station is open
KeineOffen ==
    /\ antwort # <<>>
    /\ ~Fehlausgang(antwort[1])
    /\ \A s \in DOMAIN antwort[1].prices : antwort[1].prices[s].status # "open"

\* C17 as claimed: with a successful answer and no open station the
\* aggregation returns statistics that are None for every fuel, and the price
\* table holds the fallback prices.
C17_Original ==
    KeineOffen =>
        /\ fuel_stats.art = "ok"
        /\ \A welche \in {"min", "avg", "max"}, fuel \in kraftstoffe :
              fuel_stats.wert[welche][fuel] = Null
        /\ \E strom \in Stromwerte :
              \A k \in {"Super E10", "Super E5", "Diesel"} :
                  spritpreise[k] = all_fallback_spritpreise(stats_key, strom)[k]

\* C17: with a successful answer and no open station get_fuel_prices returns
\* an empty dict, get_fuel_stats raises RuntimeError and returns no
\* statistics, and the price table is the whole fallback table of the
\* selected tier, its "Super+" included, with the "Strom" of the slider.
C17_NoOpenStation ==
    KeineOffen =>
        /\ fuel_prices = << Wert(Leer) >>
        /\ fuel_stats = Raise("RuntimeError")
        /\ stats_cache = <<>>
        /\ \E strom \in Stromwerte : spritpreise = all_fallback_spritpreise(stats_key, strom)

\* the feed answered with two closed stations while the tier was "max"
C17_Witness ==
    /\ antwort = << Body(Stationen(InfoZu, InfoZu)) >>
    /\ angefragt
    /\ stats_key = "max"
    /\ fuel_stats.art = "raise"
    /\ spritpreise["Super E5"] = Q(195, 100)
    /\ spritpreise["Super+"] = Q(215, 100)

\* C18: in every price table the script builds, for every tier and on every
\* path, "Super+" is "Super E5" plus 0.10.
C18_Original ==
    DOMAIN spritpreise # {} =>
        spritpreise["Super+"] = RAdd(spritpreise["Super E5"], Q(10, 100))

\* the request failed, the whole fallback table of the tier "avg" is taken,
\* and its "Super+" is "Super E5" plus 0.20
C18_Witness ==
    /\ antwort = << Fehlschlag("timeout") >>
    /\ fuel_stats.art = "raise"
    /\ stats_key = "avg"
    /\ spritpreise["Super E5"] = Q(185, 100)
    /\ spritpreise["Super+"] = Q(205, 100)
    /\ spritpreise["Super+"] = RAdd(spritpreise["Super E5"], Q(20, 100))

\* a step is a script run
Lauf == schritte' = schritte + 1

\* the time of the last run of the body of get_fuel_prices
LetzteAbfrage == abfragezeit[Len(abfragezeit)]

\* C19: the statistics a call of get_fuel_stats returns come from a run of
\* the body of get_fuel_prices less than 300 seconds before the call; and a
\* call 300 seconds or more after the last run of that body runs it again
\* (which sends a request unless the station list is unreadable or empty)
\* instead of serving a stored result.
C19_Fresh ==
    [][Lauf =>
        /\ fuel_stats'.art = "ok" => (grundlage' <= jetzt /\ jetzt < grundlage' + TTL)
        /\ (abfragezeit # <<>> /\ jetzt >= LetzteAbfrage + TTL) =>
              /\ antwort' # <<>>
              /\ abfragezeit'[Len(abfragezeit')] = jetzt
              /\ angefragt' \/ antwort'[1].art \in {"stations_unreadable", "keine_ids"}
              /\ fuel_stats'.art = "ok" => grundlage' = jetzt]_vars

\* the feed was queried at time 0, and the call at time 300 sent a request
\* again and returned statistics from the new body
C19_Witness ==
    /\ jetzt = 300
    /\ letzter_lauf = << 300 >>
    /\ abfragezeit = <<0, 300>>
    /\ angefragt
    /\ antwort = << Body(Stationen(InfoVoll, InfoOhneE5)) >>
    /\ fuel_stats.art = "ok"
    /\ grundlage = 300
    /\ stats_cache # <<>>
    /\ stats_cache[1].zeit = 300
    /\ prices_cache[1].zeit = 300

\* the body of get_fuel_prices ran less than 300 seconds ago and the calls
\* since have returned what it returned: prices, or an empty dict
ImFenster ==
    /\ abfragezeit # <<>>
    /\ jetzt < LetzteAbfrage + TTL
    /\ fuel_stats.art # "none"
    /\ fuel_stats.fehler # "AttributeError"

\* C20: a script run less than 300 seconds after the run of the body of
\* get_fuel_prices that returned prices or an empty dict sends no request,
\* runs no body and leaves the caches as they are; get_fuel_stats returns or
\* raises what it did in the run before, and get_fuel_prices, if called,
\* returns what it returned before.
C20_ServedFromCache ==
    [][(Lauf /\ ImFenster) =>
        /\ ~angefragt'
        /\ antwort' = <<>>
        /\ abfragezeit' = abfragezeit
        /\ prices_cache' = prices_cache
        /\ stats_cache' = stats_cache
        /\ fuel_stats' = fuel_stats
        /\ fuel_prices' \in {<<>>, fuel_prices}
        /\ fuel_stats.art = "raise" => fuel_prices' = << Wert(Leer) >>]_vars

\* the body of get_fuel_prices ran at time 0 and returned an empty dict; the
\* run at time 150 got the empty dict from the cache without a request
C20_Witness ==
    /\ jetzt = 150
    /\ letzter_lauf = << 150 >>
    /\ abfragezeit = << 0 >>
    /\ prices_cache = << [wert |-> Leer, zeit |-> 0, stand |-> 0] >>
    /\ stats_cache = <<>>
    /\ antwort = <<>>
    /\ ~angefragt
    /\ fuel_prices = << Wert(Leer) >>
    /\ fuel_stats = Raise("RuntimeError")

\* the fallback constants of a tier in hundredths: Super E10, Super E5,
\* Super+, Diesel
Konstanten(key) ==
    CASE key = "min" -> <<168, 175, 195, 155>>
      [] key = "avg" -> <<178, 185, 205, 165>>
      [] key = "max" -> <<188, 195, 215, 175>>

\* C21: whenever get_fuel_prices returned an empty dict in a pass,
\* get_fuel_stats raised RuntimeError and returned no statistics, the price
\* table of the pass holds the four fallback constants of the selected tier
\* and the value of the slider under "Strom", and the ranking section
\* computed one cost record per stored entry with that table.
C21_EmptyPricesFallback ==
    fuel_prices = << Wert(Leer) >> =>
        /\ fuel_stats = Raise("RuntimeError")
        /\ DOMAIN spritpreise = {"Super E10", "Super E5", "Super+", "Diesel", "Strom"}
        /\ spritpreise["Super E10"] = Q(Konstanten(stats_key)[1], 100)
        /\ spritpreise["Super E5"] = Q(Konstanten(stats_key)[2], 100)
        /\ spritpreise["Super+"] = Q(Konstanten(stats_key)[3], 100)
        /\ spritpreise["Diesel"] = Q(Konstanten(stats_key)[4], 100)
        /\ spritpreise["Strom"] = strompreis
        /\ Len(kosten_df) = Len(ranking)
        /\ kosten_df = KostenDf(ranking, spritpreise)

\* the request timed out in a pass with the tier "max", the slider at 0.45
\* and one stored entry
C21_Witness ==
    /\ antwort = << Fehlschlag("timeout") >>
    /\ fuel_prices = << Wert(Leer) >>
    /\ stats_key = "max"
    /\ strompreis = Q(45, 100)
    /\ spritpreise["Super+"] = Q(215, 100)
    /\ Len(ranking) = 1
    /\ Len(kosten_df) = 1
    /\ ranking[1].Kraftstoff = "Hybrid"

\* the key of the price table for a fuel of the feed
Sorte(fuel) ==
    CASE fuel = "e10" -> "Super E10"
      [] fuel = "e5" -> "Super E5"
      [] fuel = "diesel" -> "Diesel"

\* the fallback constant of the selected tier for a fuel of the feed
Konstante(fuel) ==
    CASE fuel = "e10" -> Q(Konstanten(stats_key)[1], 100)
      [] fuel = "e5" -> Q(Konstanten(stats_key)[2], 100)
      [] fuel = "diesel" -> Q(Konstanten(stats_key)[4], 100)

\* the statistic of the selected tier for a fuel
Live(fuel) == fuel_stats.wert[stats_key][fuel]

\* C22 as claimed: when get_fuel_stats returned statistics, the table takes
\* the fallback constant for a fuel whose statistic is None and the statistic
\* for every fuel whose statistic is not None.
C22_Original ==
    fuel_stats.art = "ok" =>
        \A fuel \in kraftstoffe :
            spritpreise[Sorte(fuel)] = IF Live(fuel).null THEN Konstante(fuel) ELSE Live(fuel).wert

\* C22: when get_fuel_stats returned statistics, the table takes the fallback
\* constant of the selected tier for a fuel whose statistic is None or 0, and
\* the statistic for every other fuel.
C22_PerFuelFallback ==
    fuel_stats.art = "ok" =>
        \A fuel \in kraftstoffe :
            spritpreise[Sorte(fuel)] =
                IF Live(fuel).null \/ Live(fuel).wert = Zero THEN Konstante(fuel)
                ELSE Live(fuel).wert

\* one open station reports e5 only, the tier is "min": e5 is live, e10 and
\* diesel are the constants
C22_Witness ==
    /\ antwort = << Body(Stationen(InfoZu, InfoNurE5)) >>
    /\ stats_key = "min"
    /\ fuel_stats.art = "ok"
    /\ Live("e10") = Null
    /\ spritpreise["Super E5"] = Q(1798, 1000)
    /\ spritpreise["Super E10"] = Q(168, 100)
    /\ spritpreise["Diesel"] = Q(155, 100)

\* the keys of a cost record
Kostenspalten ==
    {"Leasingkosten / Monat", "Leasingkosten (Gesamt)", "Geldwerter Vorteil / Monat",
     "Steuerlicher Aufschlag / Monat", "Spritkosten / Monat", "Spritkosten (Gesamt)",
     "Gesamtkosten / Monat", "Kosten (Gesamt)"}

\* C23: a stored entry holds inputs and no cost, and after every pass the
\* cost record of each stored entry is berechne_kosten of the entry and the
\* price table built in that pass.
C23_CostsFromCurrentTable ==
    /\ Len(kosten_df) = Len(ranking)
    /\ \A i \in DOMAIN ranking :
          /\ DOMAIN ranking[i] \cap Kostenspalten = {}
          /\ kosten_df[i] = berechne_kosten(ranking[i], spritpreise)
    /\ spritpreise = preistabelle(stats_key, fuel_stats, strompreis)

\* an entry stored under the fallback table of the tier "avg" is shown with
\* the costs of the live table of a later pass with the slider at 0.45
C23_Witness ==
    /\ Len(ranking) = 1
    /\ ranking[1].Kraftstoff = "Hybrid"
    /\ fuel_stats.art = "ok"
    /\ strompreis = Q(45, 100)
    /\ spritpreise["Super E5"] = Q(1758, 1000)
    /\ ausgabe = <<>>
    /\ kosten_df[1] # berechne_kosten(ranking[1], FallbackAvg)

\* C24: every price table has exactly the keys Super E10, Super E5, Super+,
\* Diesel and Strom, none of its values is negative, and "Strom" is the value
\* of the slider.
C24_Original ==
    /\ DOMAIN spritpreise = {"Super E10", "Super E5", "Super+", "Diesel", "Strom"}
    /\ \A k \in DOMAIN spritpreise : RLeq(Zero, spritpreise[k])
    /\ spritpreise["Strom"] = strompreis

\* the only open station reports -1.5 for e5: the table carries -1.5 for
\* Super E5 and -1.4 for Super+
C24_Witness ==
    /\ antwort = << Body([s \in {"s1"} |-> InfoNegativ]) >>
    /\ fuel_stats.art = "ok"
    /\ DOMAIN spritpreise = {"Super E10", "Super E5", "Super+", "Diesel", "Strom"}
    /\ spritpreise["Super E5"] = Q(-1500, 1000)
    /\ spritpreise["Super+"] = Q(-1400, 1000)
    /\ spritpreise["Strom"] = strompreis

\* C29: whenever get_fuel_stats returned statistics, for every fuel whose
\* statistics are not None min <= avg <= max, and the three are equal when
\* exactly one station of the dict of prices holds a value for the fuel.
C29_MinAvgMax ==
    fuel_stats.art = "ok" =>
        \A fuel \in kraftstoffe :
            ~fuel_stats.wert["avg"][fuel].null =>
                /\ RLeq(fuel_stats.wert["min"][fuel].wert, fuel_stats.wert["avg"][fuel].wert)
                /\ RLeq(fuel_stats.wert["avg"][fuel].wert, fuel_stats.wert["max"][fuel].wert)
                /\ (fuel_prices # <<>> /\ fuel_prices[1].art = "ok"
                        /\ Cardinality(MitWert(fuel_prices[1].wert, fuel)) = 1) =>
                      /\ fuel_stats.wert["min"][fuel] = fuel_stats.wert["avg"][fuel]
                      /\ fuel_stats.wert["avg"][fuel] = fuel_stats.wert["max"][fuel]

\* two open stations report 1.758 and 1.7984 for e5 and one of them 1.699
\* for e10: the mean 1.778 of e5 lies strictly between 1.758 and 1.798, and
\* min, avg and max of e10 are all 1.699
C29_Witness ==
    /\ fuel_stats.art = "ok"
    /\ fuel_prices # <<>>
    /\ fuel_prices[1].art = "ok"
    /\ Cardinality(MitWert(fuel_prices[1].wert, "e5")) = 2
    /\ Cardinality(MitWert(fuel_prices[1].wert, "e10")) = 1
    /\ fuel_stats.wert["min"]["e5"] = Zahl(Q(1758, 1000))
    /\ fuel_stats.wert["avg"]["e5"] = Zahl(Q(1778, 1000))
    /\ fuel_stats.wert["max"]["e5"] = Zahl(Q(1798, 1000))
    /\ fuel_stats.wert["avg"]["e10"] = Zahl(Q(1699, 1000))
    /\ fuel_stats.wert["min"]["e10"] = fuel_stats.wert["max"]["e10"]

\* C30: when the statistic of the selected tier for a fuel is exactly 0, the
\* price table does not carry 0 for that fuel but the fallback constant of
\* the tier, the value it carries when the statistic is None.
C30_ZeroIsMissing ==
    fuel_stats.art = "ok" =>
        \A fuel \in kraftstoffe :
            Live(fuel) = Zahl(Zero) =>
                /\ spritpreise[Sorte(fuel)] # Zero
                /\ spritpreise[Sorte(fuel)] = Konstante(fuel)
                /\ spritpreise[Sorte(fuel)] =
                      preistabelle(stats_key,
                                   [fuel_stats EXCEPT !.wert[stats_key][fuel] = Null],
                                   strompreis)[Sorte(fuel)]

\* the only open station reports 0 for e5 and the tier is "max": the
\* statistic of e5 is 0 and the table carries 1.95 for Super E5 and 2.05
\* for Super+
C30_Witness ==
    /\ antwort = << Body([s \in {"s1"} |-> InfoOhneE5]) >>
    /\ stats_key = "max"
    /\ fuel_stats.art = "ok"
    /\ Live("e5") = Zahl(Zero)
    /\ spritpreise["Super E5"] = Q(195, 100)
    /\ spritpreise["Super+"] = Q(205, 100)
    /\ spritpreise["Diesel"] = Q(1619, 1000)

\* the session keys of a slot after a pass over a slot without keys
FrischerSlot == SlotLauf(LeererSlot).state

\* the positions of the list whose entry is not of slot s
Andere(liste, s) == { i \in DOMAIN liste : liste[i].Slot # s }

\* neu holds the entries of alt that are not of slot s, each as it was and
\* in the order of alt
OhneEintragVon(alt, neu, s) ==
    \E idx \in { Andere(alt, s) } :
        /\ Len(neu) = Cardinality(idx)
        /\ \A i \in idx : neu[Cardinality({ j \in idx : j <= i })] = alt[i]

\* C25: a press of "Aus Ranking entfernen" of slot s that finds an entry of
\* slot s leaves the entries of the other slots as they were and in their
\* order, drops the entry of slot s, leaves the session keys of every other
\* slot as they were and puts the keys of slot s back to those of a fresh
\* slot; a press for a slot without an entry, the only step that shows
\* nothing, leaves the ranking, the session keys of all slots, the flag and
\* the message fields as they were.
C25_RemoveFrame ==
    [][/\ \A s \in Slots :
             HatEntfernt(s) =>
                 /\ s \in SlotsVon(ranking)
                 /\ OhneEintragVon(ranking, ranking', s)
                 /\ \A t \in Slots \ {s} : ss'[t] = ss[t]
                 /\ ss'[s] = FrischerSlot
       /\ ausgabe' = <<>> =>
             /\ ranking' = ranking
             /\ ss' = ss
             /\ ranking_updated' = ranking_updated
             /\ ranking_message_slot' = ranking_message_slot
             /\ ranking_message_text' = ranking_message_text]_vars

\* the entry of slot 1 was removed while slot 2 keeps its entry and its
\* selection: slot 1 is fresh again
C25_Witness ==
    /\ ausgabe = <<"info", 1, "Fahrzeug wurde entfernt.", 1>>
    /\ Len(ranking) = 1
    /\ ranking[1].Slot = 2
    /\ ss[2].modell = "Golf"
    /\ ss[2].motor # NoneWert
    /\ ss[1].modell = NoneWert
    /\ ss[1].leasing = NoneWert

\* the step is a press of "Ranking aktualisieren" of slot s
HatGedrueckt(s) ==
    /\ ausgabe' # <<>>
    /\ ausgabe'[2] = s
    /\ ausgabe'[3] = Meldung(ausgabe'[1])

\* in the pass with the locals l model, trim, engine and leasing option are
\* selected, the engine has catalog data and the option is among the offers
Vollstaendig(l) ==
    /\ l.selected_model # NoneWert
    /\ l.selected_variation # NoneWert
    /\ l.selected_engine # NoneWert
    /\ l.selected_leasing # NoneWert
    /\ l.has_motor
    /\ \E i \in DOMAIN l.passende_leasing :
          l.passende_leasing[i].Leasingoption = l.selected_leasing

\* C26: a press of "Ranking aktualisieren" of slot s stores an entry of slot
\* s, in place of the one the slot had, when model, trim, engine and leasing
\* option are selected, the engine has catalog data and the option is among
\* the resolved offers; in every other case it shows a warning or an error
\* and leaves the ranking and the message fields as they were.
C26_UpdateOnlyWhenComplete ==
    [][\A s \in Slots :
          HatGedrueckt(s) =>
              \E l \in { SlotLauf(ss[s]) } :
                  IF Vollstaendig(l)
                  THEN /\ ausgabe'[1] = "info"
                       /\ Len(ranking') = Cardinality(Andere(ranking, s)) + 1
                       /\ OhneEintragVon(ranking, SubSeq(ranking', 1, Len(ranking') - 1), s)
                       /\ ranking'[Len(ranking')].Slot = s
                       /\ ranking'[Len(ranking')].Modell = l.selected_model
                       /\ ranking'[Len(ranking')].Motor = l.selected_engine
                       /\ ranking'[Len(ranking')].Leasingoption = l.selected_leasing
                  ELSE /\ ausgabe'[1] \in {"warning", "error"}
                       /\ ranking' = ranking
                       /\ ranking_message_slot' = ranking_message_slot
                       /\ ranking_message_text' = ranking_message_text]_vars

\* the button of slot 2, which has a model only, was pressed while slot 1 has
\* an entry: a warning, and the ranking still holds the entry of slot 1 alone
C26_Witness ==
    /\ ausgabe # <<>>
    /\ ausgabe[1] = "warning"
    /\ ausgabe[2] = 2
    /\ ss[2].modell = "Golf"
    /\ ss[2].variation = NoneWert
    /\ Len(ranking) = 1
    /\ ranking[1].Slot = 1

\* C28: every entry of the ranking has a term of 6 to 12 months, a rate
\* fraction of 0.001 to 0.01, a mileage and a list price that are not
\* negative; no entry takes the branch of berechne_kosten for a term <= 0.
C28_EntryRanges ==
    \A i \in DOMAIN ranking :
        /\ ranking[i].Laufzeit_Monate >= 6
        /\ ranking[i].Laufzeit_Monate <= 12
        /\ RLeq(Q(1, 1000), ranking[i].Leasingrate_Faktor)
        /\ RLeq(ranking[i].Leasingrate_Faktor, Q(1, 100))
        /\ ranking[i].Freikilometer >= 0
        /\ ranking[i].UVP >= 0
        /\ ~(ranking[i].Laufzeit_Monate <= 0)

\* two entries at the limits of the inputs: 7 months at 0.1 percent with
\* mileage 0 and list price 0 as typed, and the offer of 12 months at 1.0
\* percent as it stands in the rule table
C28_Witness ==
    /\ Len(ranking) = 2
    /\ ranking[1].Laufzeit_Monate = 7
    /\ ranking[1].Leasingrate_Faktor = Q(1, 1000)
    /\ ranking[1].Freikilometer = 0
    /\ ranking[1].UVP = 0
    /\ ranking[2].Laufzeit_Monate = 12
    /\ ranking[2].Leasingrate_Faktor = Q(1, 100)

\* C27: auto_selectbox_single writes the session key exactly when the box
\* is not disabled, the label is "Kraftstoff" with at least one option or
\* there is exactly one option, and the key holds no member of the options;
\* it then writes the first option.  Otherwise, in particular for a disabled
\* box, for no options and for two or more options under another label, the
\* key stays as it was.
C27_KeyWrites ==
    ausgabe # <<>> =>
        /\ ausgabe[1].geschrieben <=>
              /\ ~anfrage.disabled
              /\ \/ anfrage.label = "Kraftstoff" /\ Len(anfrage.options) >= 1
                 \/ Len(anfrage.options) = 1
              /\ anfrage.key \notin Range(anfrage.options)
        /\ ausgabe[1].geschrieben =>
              /\ ausgabe[1].key \in Range(anfrage.options)
              /\ ausgabe[1].key = anfrage.options[1]
        /\ ~ausgabe[1].geschrieben => ausgabe[1].key = anfrage.key

\* a "Kraftstoff" box with two options called with a key that holds
\* "Diesel": the key was set to the first option
C27_Witness ==
    /\ ausgabe # <<>>
    /\ anfrage.label = "Kraftstoff"
    /\ anfrage.options = <<"Super E5", "Super E10">>
    /\ anfrage.key = "Diesel"
    /\ ~anfrage.disabled
    /\ ausgabe[1].geschrieben
    /\ ausgabe[1].key = "Super E5"

====
